---- MODULE Spec2Model ----
(***************************************************************************)
(* A model of the Uptane client of libaktualizr                            *)
(* (src/libaktualizr/primary/sotauptaneclient.cc): the command loop, the   *)
(* online and offline metadata iterations, target selection, download and  *)
(* installation.  The Uptane repositories (director_repo, images_repo),    *)
(* the storage, the fetcher and the Secondaries are collaborators; their   *)
(* answers are inputs chosen with \E.                                      *)
(***************************************************************************)
EXTENDS Integers, Sequences, FiniteSets, TLC

\* Highest metadata version the servers ever serve.
MaxVersion == 3

\* Highest Root version a Secondary reports to have.
MaxSecondaryRoot == 1

\* Longest installed-version log that is explored.
MaxInstalls == 1

Repos == {"director", "images"}
Roles == {"timestamp", "snapshot", "targets"}
Versions == 1..MaxVersion

(***************************************************************************)
(* ECU inventory: the Primary, one configured Secondary, and one serial    *)
(* no ECU of the device has.                                               *)
(***************************************************************************)
VARIABLE secondaries   \* the serials of the Secondaries (initSecondaries)

PrimarySerial == "P"
SecondarySerials == secondaries
UnknownSerial == "SX"

\* A serial no ECU of the device has and that sorts before the others.
EarlyUnknownSerial == "A0"

\* hw_ids: serial -> hardware identifier (initialize, initSecondaries).
hw_ids == [s \in {PrimarySerial} \cup SecondarySerials |->
             IF s = PrimarySerial THEN "hwP" ELSE "hwS"]

(***************************************************************************)
(* Targets.  ecus is the custom ecu_serial -> hardware_id map, given as   *)
(* the sequence of its pairs in the order of the serials (a std::map).     *)
(***************************************************************************)
Tgt(f, l, h, e) == [filename |-> f, length |-> l, hashes |-> h, ecus |-> e,
                    type |-> "BINARY"]

TCur == Tgt("cur", 1, {"h0"}, <<<<"P", "hwP">>>>)
TNew == Tgt("new", 2, {"h1"}, <<<<"P", "hwP">>>>)
TSec == Tgt("sec", 2, {"h2"}, <<<<"S1", "hwS">>>>)
TBadHw == Tgt("new", 2, {"h1"}, <<<<"P", "hwBad">>>>)
TUnknown == Tgt("new", 2, {"h1"}, <<<<"SX", "hwX">>>>)
TBoth == Tgt("new", 2, {"h1"}, <<<<"P", "hwP">>, <<"SX", "hwX">>>>)
TSecBadHw == Tgt("sec", 2, {"h2"}, <<<<"S1", "hwBad">>>>)

\* Targets that name an ECU with a wrong hardware identifier and an ECU
\* the device does not have, and a target for both ECUs of the device.
TUnknownBadHw == Tgt("new", 2, {"h1"}, <<<<"A0", "hwX">>, <<"P", "hwBad">>>>)
TBadHwUnknown == Tgt("new", 2, {"h1"}, <<<<"P", "hwBad">>, <<"SX", "hwX">>>>)
TPair == Tgt("new", 2, {"h1"}, <<<<"P", "hwP">>, <<"S1", "hwS">>>>)

\* Targets for a second Secondary, and for both Secondaries.
TSec2 == Tgt("sec", 2, {"h2"}, <<<<"S2", "hwS">>>>)
TTwoSec == Tgt("sec", 2, {"h2"}, <<<<"S1", "hwS">>, <<"S2", "hwS">>>>)

TOstree == [TNew EXCEPT !.type = "OSTREE"]
TSecOstree == [TSec EXCEPT !.type = "OSTREE"]

\* The image of TNew as listed with another hash.
TOther == Tgt("new", 2, {"hX"}, <<>>)

\* The target lists of the versions of the Director Targets: a new image
\* for the Primary, one for the Secondary, and one for a known serial with
\* a hardware identifier that is not its own.
DirectorContents == << <<TNew>>, <<TSec>>, <<TNew>>, <<TBadHw>> >>

\* The target lists of the versions of the Image Targets.
ImagesContents == << <<TNew, TSec>>, <<TOther>>, <<TNew, TSec>> >>

ContentsOf(r) == IF r = "director" THEN DirectorContents ELSE ImagesContents

\* The updates a StartDownload command may carry.
DownloadTargets == { <<>>, <<TNew>>, <<TNew, TSec>>, <<TUnknown, TCur>> }

\* The updates an UptaneInstall command may carry: on the device with one
\* Secondary, on the device with none, and on the device with two.
InstallTargets ==
  IF secondaries = {}
  THEN { <<TNew>>, <<TCur, TNew>>, <<TNew, TCur>>, <<TOstree>>, <<TSec>> }
  ELSE IF secondaries = {"S1"}
  THEN { <<>>, <<TNew>>, <<TSec>>, <<TNew, TSec>>, <<TBadHw>>,
         <<TBoth>>, <<TSecBadHw>>, <<TCur, TNew>>, <<TNew, TCur>>,
         <<TOstree>>, <<TSecOstree>> }
  ELSE { <<TTwoSec>>, <<TSec, TSec2>>, <<TNew, TSec2>>,
         <<[TTwoSec EXCEPT !.type = "OSTREE"]>> }

(***************************************************************************)
(* Metadata blobs.  A Root is its version and whether it is expired now;   *)
(* a non-Root role also has the index of its target list (0: none).        *)
(***************************************************************************)
NoRoot == [present |-> FALSE, version |-> 0, expired |-> FALSE]
NoMeta == [present |-> FALSE, version |-> 0, expired |-> FALSE, content |-> 0]

RootOf(b) == [present |-> TRUE, version |-> b.version, expired |-> b.expired]
MetaOf(b) == [present |-> TRUE, version |-> b.version, expired |-> b.expired,
              content |-> b.content]

(***************************************************************************)
(* The servers.  Every version of a non-Root role is one document: the     *)
(* third version is the one that is expired by now, and the target list    *)
(* of a Targets role goes with its version.  A Root is whatever the server *)
(* sends.  An answer is nothing (got = FALSE), or a blob that passes (ok)  *)
(* or fails the repository's signature and consistency checks.             *)
(***************************************************************************)
ExpiredDoc(v) == v = 3

ContentOfDoc(r, role, v) ==
  IF role # "targets" THEN 0
  ELSE IF v <= Len(ContentsOf(r)) THEN v ELSE Len(ContentsOf(r))

NoAnswer == [got |-> FALSE, ok |-> FALSE, version |-> 0, expired |-> FALSE,
             content |-> 0]

RootAnswers == {NoAnswer} \cup
  [got : {TRUE}, ok : BOOLEAN, version : Versions, expired : BOOLEAN,
   content : {0}]

MetaAnswers(r, role) == {NoAnswer} \cup
  { [got |-> TRUE, ok |-> ok, version |-> v, expired |-> ExpiredDoc(v),
     content |-> ContentOfDoc(r, role, v)] : ok \in BOOLEAN, v \in Versions }

\* The one Root and the one Targets of a server that never publishes again.
FirstRoot == [got |-> TRUE, ok |-> TRUE, version |-> 1, expired |-> FALSE,
              content |-> 0]
FirstMeta(r, role) == [got |-> TRUE, ok |-> TRUE, version |-> 1,
                       expired |-> FALSE, content |-> ContentOfDoc(r, role, 1)]

\* The locals of the Root walk outside the walk.
NoWalk == [first |-> 0, version |-> 0, remote |-> 0]

EmptyRepo == [root |-> NoRoot, timestamp |-> NoMeta, snapshot |-> NoMeta,
              targets |-> NoMeta]

VARIABLES
  servers,         \* servers[repo]: "any", "quiet" or "down" (see Fetch*)
  pc,              \* where the command loop stands
  cmd,             \* the variant of the command being (or last) processed
  roots,           \* storage: roots[repo][v], the Root stored as version v
  nonroot,         \* storage: nonroot[repo][role], the latest stored role
  repo,            \* director_repo and images_repo, the in-memory state
  last_exception,  \* SotaUptaneClient::last_exception
  installed_images,\* serial -> installed file name ("?" when not known)
  walk,            \* the Root walk: first and next version, remote version
  events,          \* the events the current command has emitted
  loaded_roles,    \* <<repo, role>> loaded from storage by CheckUpdates
  downloads,       \* the targets given to fetchVerifyTarget by this command
  fetch_results,   \* what the calls of fetchVerifyTarget that returned gave
  pacman,          \* config.pacman.type
  pm_current,      \* package_manager_->getCurrent()
  installation_result, \* storage: the stored installation result
  installed_versions,  \* storage: the installed-version log
  install_log,     \* what this command did to the ECUs, in order
  highest_stored,  \* history: the highest Targets version ever stored
  selection,       \* getNewTargets applied: its inputs and its result
  api,             \* the Aktualizr object and what it called on the client
  put_log,         \* what the last manifest command assembled and PUT
  ostree,          \* the OSTree sysroot, the bootloader and the last call
  retry,           \* history: how the FetchMeta before this one ended
  p11,             \* the PKCS#11 token, the P11Engine and its last call
  ecu_store        \* the stored ECU serials and misconfigured_ecus

\* What the commands of runForever leave alone.
aux == <<secondaries, selection, api, put_log, ostree, retry, p11, ecu_store>>

\* The package manager, its configuration and what storage holds of
\* installations.
device == <<pacman, pm_current, installation_result, installed_versions>>

vars == <<servers, pc, cmd, roots, nonroot, repo, last_exception,
          installed_images, walk, events, loaded_roles, downloads, fetch_results, device,
          install_log, highest_stored, aux>>

(***************************************************************************)
(* The fetcher (Uptane::Fetcher): what a fetch may bring.  A server that   *)
(* is "down" answers nothing, a "quiet" one has published the first        *)
(* version of every role and nothing since, and "any" server answers       *)
(* whatever it likes.                                                      *)
(***************************************************************************)
\* Servers whose metadata does not change and is not the first version of
\* everything: one that has rotated its Root to version 2 and publishes
\* the roles at version 2, one whose roles are the expired third version,
\* one whose Root 2 does not verify, one whose Root 1 is expired, and one
\* whose roles do not verify.
FixedServers == {"rotated", "expired", "badroot", "expiredroot", "badsig"}

\* The latest Root and the version of the roles such a server publishes.
LatestRootOf(kind) == IF kind \in {"rotated", "badroot"} THEN 2 ELSE 1
RoleVersionOf(kind) ==
  IF kind = "rotated" THEN 2 ELSE IF kind = "expired" THEN 3 ELSE 1

\* The Root it gives as version v, and the role it gives as the latest.
RootDoc(kind, v) ==
  IF v > LatestRootOf(kind) THEN NoAnswer
  ELSE [got |-> TRUE, ok |-> ~(kind = "badroot" /\ v = 2), version |-> v,
        expired |-> kind = "expiredroot", content |-> 0]

RoleDoc(kind, r, role) ==
  [got |-> TRUE, ok |-> kind # "badsig", version |-> RoleVersionOf(kind),
   expired |-> ExpiredDoc(RoleVersionOf(kind)),
   content |-> ContentOfDoc(r, role, RoleVersionOf(kind))]

\* fetchRole(..., Role::Root(), Version(v))
FetchRoot(r, v) ==
  IF servers[r] = "down" THEN {NoAnswer}
  ELSE IF servers[r] = "quiet" THEN {FirstRoot}
  ELSE IF servers[r] \in FixedServers THEN {RootDoc(servers[r], v)}
  ELSE RootAnswers

\* fetchLatestRole(..., Role::Root()): got, and the version it reports.
FetchLatestRootVersion(r) ==
  IF servers[r] = "down" THEN {[got |-> FALSE, version |-> 0]}
  ELSE IF servers[r] = "quiet" THEN {[got |-> TRUE, version |-> 1]}
  ELSE IF servers[r] \in FixedServers
  THEN {[got |-> TRUE, version |-> LatestRootOf(servers[r])]}
  ELSE {[got |-> FALSE, version |-> 0]} \cup
       [got : {TRUE}, version : Versions]

\* fetchLatestRole of a non-Root role
FetchMetaRole(r, role) ==
  IF servers[r] = "down" THEN {NoAnswer}
  ELSE IF servers[r] = "quiet" THEN {FirstMeta(r, role)}
  ELSE IF servers[r] \in FixedServers THEN {RoleDoc(servers[r], r, role)}
  ELSE MetaAnswers(r, role)

(***************************************************************************)
(* Storage (INvStorage).                                                   *)
(***************************************************************************)
StoredVersions(r) == {v \in Versions : roots[r][v].present}

\* storage->loadLatestRoot: the Root stored under the highest version.
loadLatestRoot(r) ==
  IF StoredVersions(r) = {} THEN NoRoot
  ELSE roots[r][CHOOSE v \in StoredVersions(r) :
                       \A w \in StoredVersions(r) : w <= v]

\* storage->storeRoot(data, repo, version)
storeRoot(st, r, b, v) == [st EXCEPT ![r][v] = RootOf(b)]

\* A storage whose clearNonRootMeta removes nothing.
KeepNonRootMeta(st, r) == st

\* storage->clearNonRootMeta(repo)
clearNonRootMeta(st, r) == [st EXCEPT ![r] = [role \in Roles |-> NoMeta]]

\* A client that takes the storage to hold no copy of any role.
NoLocalVersion(r, role) == -1

\* storage->loadNonRoot and Uptane::extractVersionUntrusted: the version
\* of the stored copy, -1 when there is none.
LocalVersion(r, role) ==
  IF nonroot[r][role].present THEN nonroot[r][role].version ELSE -1

(***************************************************************************)
(* The repositories (Uptane::DirectorRepository, Uptane::ImagesRepository).*)
(***************************************************************************)
\* resetMeta: drops all non-Root state.
resetMeta(rp) == [EmptyRepo EXCEPT !.root = rp.root]

\* initRoot: the Root must be self-consistent; no version or expiry check.
initRoot(b) == b.ok

\* verifyRoot: the next Root, signed by the old and the new keys, with
\* version current + 1 and not expired.
verifyRoot(rp, b) == b.ok /\ b.version = rp.root.version + 1 /\ ~b.expired

\* verifyTimestamp, verifySnapshot, verifyTargets: signatures against the
\* current Root and the cross-role checks.
verifyMeta(rp, b) == b.ok

\* getTargets: the targets of the role held in memory, none when absent.
TargetsOf(r, rp) ==
  IF rp.targets.present THEN ContentsOf(r)[rp.targets.content] ELSE <<>>

getTargets(r) == TargetsOf(r, repo[r])

\* Target equality as the Image repository applies it: same file name,
\* length and hash set.
SameImage(a, b) ==
  a.filename = b.filename /\ a.length = b.length /\ a.hashes = b.hashes

\* images_repo.getTarget(director_target): is a matching target listed?
getTarget(t) ==
  \E i \in 1..Len(getTargets("images")) : SameImage(getTargets("images")[i], t)

(***************************************************************************)
(* Command loop: taking a command, and ending one.                         *)
(***************************************************************************)
\* while (*commands_channel >> command): the next command is taken.  The
\* records of what a command did (events, loaded_roles, downloads,
\* install_log) start anew with every command.
Take(variant, updates) ==
  /\ pc = "wait"
  /\ cmd' = [variant |-> variant, updates |-> updates]

\* The iteration returns false: updateMeta returns false and runForever
\* emits Error ("Could not update metadata.").
IterationFails(ev) ==
  /\ pc' = "wait"
  /\ events' = Append(ev, "Error")

\* The iteration returns true: runForever emits FetchMetaComplete.
IterationSucceeds(ev) ==
  /\ pc' = "wait"
  /\ events' = Append(ev, "FetchMetaComplete")

PcOf(r, step) == IF r = "director" THEN "director_" \o step ELSE "images_" \o step

(***************************************************************************)
(* The online iteration: the Root of a repository.                         *)
(***************************************************************************)
\* "Load Initial Root Metadata": the stored Root, or version 1 fetched.
LoadInitialRoot(r) ==
  /\ pc = PcOf(r, "root_init")
  /\ UNCHANGED <<aux, servers, highest_stored, cmd, nonroot, installed_images, walk, loaded_roles, downloads, fetch_results, device, install_log>>
  /\ IF StoredVersions(r) # {}
     THEN /\ repo' = [repo EXCEPT ![r] =
                        [EmptyRepo EXCEPT !.root = loadLatestRoot(r)]]
          /\ pc' = PcOf(r, "root_latest")
          /\ UNCHANGED <<roots, last_exception, events>>
     ELSE \E a \in FetchRoot(r, 1) :
            IF ~a.got
            THEN /\ repo' = [repo EXCEPT ![r] = resetMeta(@)]
                 /\ IterationFails(events)
                 /\ UNCHANGED <<roots, last_exception>>
            ELSE IF ~initRoot(a)
            THEN /\ repo' = [repo EXCEPT ![r] = resetMeta(@)]
                 /\ last_exception' = "SecurityException"
                 /\ IterationFails(events)
                 /\ UNCHANGED roots
            ELSE /\ repo' = [repo EXCEPT ![r] =
                               [EmptyRepo EXCEPT !.root = RootOf(a)]]
                 /\ roots' = storeRoot(roots, r, a, 1)
                 /\ pc' = PcOf(r, "root_latest")
                 /\ UNCHANGED <<last_exception, events>>

\* "Update Root Metadata", before the loop: the latest Root is fetched and
\* its version read without verification.
FetchLatestRoot(r) ==
  /\ pc = PcOf(r, "root_latest")
  /\ UNCHANGED <<aux, servers, highest_stored, cmd, roots, nonroot, repo, last_exception, installed_images,
                 loaded_roles, downloads, fetch_results,
                 device, install_log>>
  /\ \E latest \in FetchLatestRootVersion(r) :
       IF ~latest.got
       THEN /\ IterationFails(events)
            /\ UNCHANGED walk
       ELSE /\ walk' = [first |-> repo[r].root.version + 1,
                        version |-> repo[r].root.version + 1,
                        remote |-> latest.version]
            /\ pc' = PcOf(r, "root_walk")
            /\ UNCHANGED events

\* A client that takes no Root to be expired.
NeverExpired(r) == FALSE

\* rootExpired()
rootExpired(r) == repo[r].root.expired

\* One turn of the loop over the Root versions, and the expiry check that
\* follows the loop.
WalkRoot(r, next) ==
  /\ pc = PcOf(r, "root_walk")
  /\ UNCHANGED <<aux, servers, highest_stored, cmd, installed_images, loaded_roles, downloads, fetch_results, device, install_log>>
  /\ IF walk.version <= walk.remote
     THEN \E a \in FetchRoot(r, walk.version) :
            IF ~a.got
               THEN /\ IterationFails(events)
                    /\ walk' = NoWalk
                    /\ UNCHANGED <<roots, nonroot, repo, last_exception>>
               ELSE IF ~verifyRoot(repo[r], a)
               THEN /\ last_exception' = "SecurityException"
                    /\ IterationFails(events)
                    /\ walk' = NoWalk
                    /\ UNCHANGED <<roots, nonroot, repo>>
               ELSE /\ repo' = [repo EXCEPT ![r] =
                                  [EmptyRepo EXCEPT !.root = RootOf(a)]]
                    /\ roots' = storeRoot(roots, r, a, walk.version)
                    /\ nonroot' = clearNonRootMeta(nonroot, r)
                    /\ walk' = [walk EXCEPT !.version = @ + 1]
                    /\ UNCHANGED <<pc, last_exception, events>>
     ELSE /\ UNCHANGED <<roots, nonroot, repo>>
          /\ walk' = NoWalk
          /\ IF rootExpired(r)
             THEN /\ last_exception' = "ExpiredMetadata"
                  /\ IterationFails(events)
             ELSE /\ pc' = next
                  /\ UNCHANGED <<last_exception, events>>

(***************************************************************************)
(* The online iteration: a non-Root role of a repository.                  *)
(***************************************************************************)
\* A client without the version comparison.
NeverRollback(local_version, remote_version) == FALSE

\* A client that takes the version it has to be a rollback as well.
NotNewerIsRollback(local_version, remote_version) ==
  local_version >= remote_version

\* if (local_version > remote_version) return false;
IsRollback(local_version, remote_version) == local_version > remote_version

\* else if (local_version < remote_version) storage->storeNonRoot(...)
IsNewer(local_version, remote_version) == local_version < remote_version

\* A client that takes no non-Root role to be expired.
RoleNeverExpired(rp, role) == FALSE

\* timestampExpired(), snapshotExpired(), targetsExpired(): of the role
\* the repository holds in memory.
roleExpired(rp, role) == rp[role].expired

\* "Update <role> Metadata": fetch the latest, read the versions, verify,
\* compare the versions and store, check the expiry.
UpdateRole(r, role, next) ==
  /\ pc = PcOf(r, role)
  /\ UNCHANGED <<aux, servers, cmd, roots, installed_images, walk, loaded_roles, downloads, fetch_results, device, install_log>>
  /\ \E a \in FetchMetaRole(r, role) :
       LET remote_version == a.version
           local_version == LocalVersion(r, role)
           verified == [repo EXCEPT ![r][role] = MetaOf(a)]
       IN
       IF ~a.got
       THEN /\ IterationFails(events)
            /\ UNCHANGED <<nonroot, highest_stored, repo, last_exception>>
       ELSE IF ~verifyMeta(repo[r], a)
       THEN /\ last_exception' = "SecurityException"
            /\ IterationFails(events)
            /\ UNCHANGED <<nonroot, highest_stored, repo>>
       ELSE IF IsRollback(local_version, remote_version)
       THEN /\ repo' = verified
            /\ IterationFails(events)
            /\ UNCHANGED <<nonroot, highest_stored, last_exception>>
       ELSE /\ repo' = verified
            /\ IF IsNewer(local_version, remote_version)
               THEN /\ nonroot' = [nonroot EXCEPT ![r][role] = MetaOf(a)]
                    /\ highest_stored' =
                         IF role = "targets" /\ a.version > highest_stored[r]
                         THEN [highest_stored EXCEPT ![r] = a.version]
                         ELSE highest_stored
               ELSE UNCHANGED <<nonroot, highest_stored>>
            /\ IF roleExpired(verified[r], role)
               THEN /\ last_exception' = "ExpiredMetadata"
                    /\ IterationFails(events)
               ELSE /\ UNCHANGED last_exception
                    /\ IF next = "wait"
                       THEN IterationSucceeds(events)
                       ELSE pc' = next /\ UNCHANGED events

(***************************************************************************)
(* Target selection.                                                       *)
(***************************************************************************)
\* A selection that gives up at a serial the device does not have.
AbortOnUnknownEcu == "abort"

\* Unknown ECU ID in director targets metadata: is_new = false; break;
OnUnknownEcu == "skip"

\* The loop of getNewTargets over the ECUs of one target, from the i-th:
\* "new", "skip" (an ECU is not known: break with is_new = false) or
\* "abort" (wrong hardware identifier: return false).
RECURSIVE EcuLoop(_, _, _, _)
EcuLoop(t, i, is_new, installed) ==
  IF i > Len(t.ecus) THEN (IF is_new THEN "new" ELSE "skip")
  ELSE LET ecu_serial == t.ecus[i][1]
           hw_id == t.ecus[i][2]
       IN IF ecu_serial \notin DOMAIN hw_ids THEN OnUnknownEcu
          ELSE IF hw_ids[ecu_serial] # hw_id THEN "abort"
          ELSE IF ecu_serial \notin DOMAIN installed THEN "skip"
          ELSE IF installed[ecu_serial] = t.filename
               THEN EcuLoop(t, i + 1, is_new, installed)
               ELSE EcuLoop(t, i + 1, TRUE, installed)

\* getNewTargets over the targets from the i-th, acc being the result.
RECURSIVE TargetLoop(_, _, _, _)
TargetLoop(targets, i, acc, installed) ==
  IF i > Len(targets) THEN [ok |-> TRUE, targets |-> acc]
  ELSE LET verdict == EcuLoop(targets[i], 1, TRUE, installed)
       IN IF verdict = "abort" THEN [ok |-> FALSE, targets |-> acc]
          ELSE TargetLoop(targets, i + 1,
                          IF verdict = "new" THEN Append(acc, targets[i])
                          ELSE acc,
                          installed)

getNewTargets(targets, installed) == TargetLoop(targets, 1, <<>>, installed)

\* An iteration that takes every selection to have found something.
NeverEmpty(targets) == FALSE

\* if (targets.empty()) return true;
empty(targets) == targets = <<>>

\* uptaneIteration, between updateDirectorMeta and updateImagesMeta.
SelectTargets ==
  /\ pc = "select"
  /\ UNCHANGED <<aux, servers, highest_stored, cmd, roots, nonroot, repo, last_exception, installed_images,
                 walk, loaded_roles, downloads, fetch_results, device, install_log>>
  /\ LET got == getNewTargets(getTargets("director"), installed_images)
     IN IF ~got.ok THEN IterationFails(events)
        ELSE IF empty(got.targets) THEN IterationSucceeds(events)
        ELSE pc' = "images_root_init" /\ UNCHANGED events

(***************************************************************************)
(* The manifest.                                                           *)
(***************************************************************************)
\* What a Secondary may answer to getManifest: a manifest without "signed"
\* or "signatures", one whose signature does not verify, a good one, and
\* a good one that reports an installation in progress.
SecManifests ==
  { [signed |-> FALSE, verified |-> FALSE, custom |-> FALSE, code |-> "Ok"],
    [signed |-> TRUE, verified |-> FALSE, custom |-> FALSE, code |-> "Ok"],
    [signed |-> TRUE, verified |-> TRUE, custom |-> FALSE, code |-> "Ok"],
    [signed |-> TRUE, verified |-> TRUE, custom |-> TRUE,
     code |-> "InProgress"] }

\* A Primary's entry that never has an operation result.
NoOperationResult ==
  [signed |-> TRUE, verified |-> TRUE, custom |-> FALSE, code |-> "Ok"]

\* The Primary's entry: the package manager's manifest, with the stored
\* installation result as custom.operation_result when it has an id.
PrimaryManifest ==
  [signed |-> TRUE, verified |-> TRUE,
   custom |-> installation_result.id # "",
   code |-> installation_result.code]

\* An assembly that includes every Secondary's answer.
AssembleAll(sm) ==
  [s \in {PrimarySerial} \cup SecondarySerials |->
     IF s = PrimarySerial THEN PrimaryManifest ELSE sm[s]]

\* AssembleManifest: the Primary's entry and the entry of every Secondary
\* whose manifest is complete and verifies; sm[s] is what s answers.
AssembleManifest(sm) ==
  LET included == {s \in SecondarySerials : sm[s].signed /\ sm[s].verified}
  IN [s \in {PrimarySerial} \cup included |->
        IF s = PrimarySerial THEN PrimaryManifest ELSE sm[s]]

\* installed_images as AssembleManifest leaves it.
InstalledImages(manifest) ==
  [s \in DOMAIN manifest |->
     IF s = PrimarySerial THEN pm_current.filename ELSE "sec0"]

\* A check that never finds a pending update.
NoPending(manifests) == FALSE

\* hasPendingUpdates
hasPendingUpdates(manifests) ==
  \E s \in DOMAIN manifests :
    manifests[s].custom /\ manifests[s].code = "InProgress"

\* putManifest: the PUT is made unless an update is pending; put_ok is
\* response.isOk().
putManifest(manifest, put_ok) == ~hasPendingUpdates(manifest) /\ put_ok

\* The http.put calls putManifest makes: the PUT of the signed manifest
\* to the Director, unless an update is pending.
ManifestPuts(manifest) ==
  IF hasPendingUpdates(manifest) THEN <<>> ELSE <<"manifest">>

(***************************************************************************)
(* Commands.                                                               *)
(***************************************************************************)
\* No FetchMeta is followed, or none came before.
NoRetry == [on |-> FALSE, put |-> FALSE, prior |-> [done |-> FALSE]]
FirstTry == [NoRetry EXCEPT !.on = TRUE]

\* What is kept of the FetchMeta before the one that starts, when two in
\* a row are followed: what its putManifest returned, the installed
\* images it found, the events it emitted and the storage it left.
Retried(put) ==
  IF ~retry.on THEN retry
  ELSE [on |-> TRUE, put |-> put,
        prior |-> IF cmd.variant # "FetchMeta" THEN [done |-> FALSE]
                  ELSE [done |-> TRUE, put |-> retry.put,
                        installed |-> installed_images, events |-> events,
                        roots |-> roots, nonroot |-> nonroot,
                        exception |-> last_exception]]

\* FetchMeta: updateMeta up to the call of uptaneIteration.
FetchMeta ==
  /\ Take("FetchMeta", <<>>)
  /\ loaded_roles' = {} /\ downloads' = <<>> /\ fetch_results' = <<>>
  /\ install_log' = <<>>
  /\ UNCHANGED <<secondaries, selection, api, put_log, ostree, p11, ecu_store, servers,
                 highest_stored, roots, nonroot, repo, last_exception, walk,
                 device>>
  /\ \E out \in { [installed |-> InstalledImages(AssembleManifest(sm)),
                     put |-> putManifest(AssembleManifest(sm), put_ok)] :
                    sm \in [SecondarySerials -> SecManifests],
                    put_ok \in BOOLEAN } :
       /\ installed_images' = out.installed
       /\ retry' = Retried(out.put)
       /\ IF out.put
          THEN pc' = "director_root_init" /\ events' = <<>>
          ELSE pc' = "wait" /\ events' = <<"Error">>

\* The order of the non-Root roles of a repository.
RoleOrder(r) ==
  IF r = "director" THEN <<"targets">>
  ELSE <<"timestamp", "snapshot", "targets">>

\* checkDirectorMetaOffline and checkImagesMetaOffline after the Root: each
\* role is loaded, verified and checked for expiry.  verifies[role] is the
\* answer of the verification of the stored copy.  The result: ok, the
\* repository as it is left, the exception set ("" when none) and the
\* roles that were loaded.
\* An offline check that takes the stored copies as they are: nothing is
\* verified and no expiry is looked at.
LoadUnchecked(r, rp, order, verifies) ==
  [ok |-> TRUE,
   rp |-> [role \in DOMAIN rp |->
             IF \E i \in 1..Len(order) : order[i] = role
             THEN nonroot[r][role] ELSE rp[role]],
   exc |-> "",
   loaded |-> {<<r, order[i]>> : i \in 1..Len(order)}]

RECURSIVE CheckRolesOffline(_, _, _, _)
CheckRolesOffline(r, rp, order, verifies) ==
  IF order = <<>>
  THEN [ok |-> TRUE, rp |-> rp, exc |-> "", loaded |-> {}]
  ELSE LET role == Head(order)
           stored == nonroot[r][role]
           loaded == [rp EXCEPT ![role] = stored]
           rest == CheckRolesOffline(r, loaded, Tail(order), verifies)
       IN IF ~stored.present
          THEN [ok |-> FALSE, rp |-> rp, exc |-> "", loaded |-> {<<r, role>>}]
          ELSE IF ~verifies[role]
          THEN [ok |-> FALSE, rp |-> rp, exc |-> "SecurityException",
                loaded |-> {<<r, role>>}]
          ELSE IF roleExpired(loaded, role)
          THEN [ok |-> FALSE, rp |-> loaded, exc |-> "ExpiredMetadata",
                loaded |-> {<<r, role>>}]
          ELSE [rest EXCEPT !.loaded = @ \cup {<<r, role>>}]

\* checkDirectorMetaOffline, checkImagesMetaOffline
checkMetaOffline(r, verifies) ==
  LET reset == resetMeta(repo[r])
      loaded == [reset EXCEPT !.root = loadLatestRoot(r)]
  IN IF StoredVersions(r) = {}
     THEN [ok |-> FALSE, rp |-> reset, exc |-> "", loaded |-> {}]
     ELSE IF loaded.root.expired
     THEN [ok |-> FALSE, rp |-> loaded, exc |-> "ExpiredMetadata",
           loaded |-> {}]
     ELSE CheckRolesOffline(r, loaded, RoleOrder(r), verifies)

\* What the verification of the stored copies may answer.  A stored role
\* was verified when it was stored and the Root is still the one it was
\* verified with; a stored Snapshot or Image Targets may yet fail the
\* cross-role checks against a Timestamp or Snapshot stored later.
OfflineVerdicts(r) ==
  IF r = "director" THEN {[role \in Roles |-> TRUE]}
  ELSE {v \in [Roles -> BOOLEAN] : v["timestamp"]}

\* CheckUpdates: AssembleManifest, uptaneOfflineIteration and the event.
CheckUpdates ==
  /\ Take("CheckUpdates", <<>>)
  /\ downloads' = <<>> /\ fetch_results' = <<>> /\ install_log' = <<>>
  /\ UNCHANGED <<aux, servers, highest_stored, roots, nonroot, walk, device>>
  /\ \E installed \in { InstalledImages(AssembleManifest(sm)) :
                          sm \in [SecondarySerials -> SecManifests] },
        vi \in OfflineVerdicts("images") :
       LET dir == checkMetaOffline("director",
                                   CHOOSE v \in OfflineVerdicts("director") : TRUE)
           got == getNewTargets(TargetsOf("director", dir.rp), installed)
           img == checkMetaOffline("images", vi)
           images_checked == dir.ok /\ got.ok /\ ~empty(got.targets)
           exc == IF images_checked /\ img.exc # "" THEN img.exc ELSE dir.exc
       IN /\ installed_images' = installed
          /\ repo' = [repo EXCEPT !["director"] = dir.rp,
                                  !["images"] =
                                     IF images_checked THEN img.rp ELSE @]
          /\ loaded_roles' = dir.loaded \cup
                         (IF images_checked THEN img.loaded ELSE {})
          /\ last_exception' = IF exc # "" THEN exc ELSE last_exception
          /\ pc' = "wait"
          /\ events' =
               IF ~dir.ok \/ ~got.ok THEN <<>>
               ELSE IF got.targets = <<>> THEN <<"UptaneTimestampUpdated">>
               ELSE IF ~img.ok THEN <<>>
               ELSE <<"UpdateAvailable">>

(***************************************************************************)
(* Download.                                                               *)
(***************************************************************************)
\* A download loop that does not consult the Image repository.
AllTargets(targets, i) == targets

\* The loop of downloadImages: the targets of the command that have a
\* matching target in the Image repository, in the order of the command.
RECURSIVE MatchedTargets(_, _)
MatchedTargets(targets, i) ==
  IF i > Len(targets) THEN <<>>
  ELSE IF getTarget(targets[i])
       THEN <<targets[i]>> \o MatchedTargets(targets, i + 1)
       ELSE MatchedTargets(targets, i + 1)

\* StartDownload: downloadImages(updates).  fetchVerifyTarget may throw; k
\* is the call that throws (0: none does), which ends the command with
\* the Error event of runForever.  A call that returns gives TRUE when
\* the image was fetched and verified and FALSE when it was not; the
\* loop does not look at what it gives.
StartDownload ==
  /\ pc = "wait"
  /\ loaded_roles' = {} /\ install_log' = <<>>
  /\ UNCHANGED <<aux, servers, highest_stored, roots, nonroot, repo, last_exception, installed_images,
                 walk, device>>
  /\ \E updates \in DownloadTargets :
       LET downloaded_targets == MatchedTargets(updates, 1)
       IN \E k \in 0..Len(downloaded_targets) :
          \E results \in [1..(IF k > 0 THEN k - 1
                               ELSE Len(downloaded_targets)) -> BOOLEAN] :
            /\ Take("StartDownload", updates)
            /\ pc' = "wait"
            /\ fetch_results' = results
            /\ IF k > 0
               THEN /\ downloads' = SubSeq(downloaded_targets, 1, k)
                    /\ events' = <<"Error">>
               ELSE /\ downloads' = downloaded_targets
                    /\ events' =
                         IF updates = <<>> THEN <<"UptaneTimestampUpdated">>
                         ELSE IF Len(updates) = Len(downloaded_targets)
                         THEN <<"DownloadComplete">>
                         ELSE <<>>

(***************************************************************************)
(* Installation.  install_log is the sequence of what the command did to   *)
(* the ECUs: op is "putRoot", "putMetadata", "updateNotify", "install",     *)
(* "result" (storeInstallationResult) or "sendFirmware", and at its end    *)
(* "InstallComplete" for the event.                                        *)
(***************************************************************************)
Did(op, ecu, t, what) == [op |-> op, ecu |-> ecu, target |-> t, what |-> what]

NoTarget == Tgt("", 0, {}, <<>>)

\* target.ecus().find(ecu_id) != target.ecus().end()
Addresses(t, ecu_id) == \E i \in 1..Len(t.ecus) : t.ecus[i][1] = ecu_id

\* findForEcu
RECURSIVE findForEcu(_, _)
findForEcu(targets, ecu_id) ==
  IF targets = <<>> THEN <<>>
  ELSE IF Addresses(Head(targets), ecu_id)
       THEN <<Head(targets)>> \o findForEcu(Tail(targets), ecu_id)
       ELSE findForEcu(Tail(targets), ecu_id)

\* A check that finds no target installed.
NeverOnPrimary(t) == FALSE

\* isInstalledOnPrimary
isInstalledOnPrimary(t) ==
  IF Addresses(t, PrimarySerial) THEN SameImage(t, pm_current) ELSE FALSE

IsOstree(t) == t.type = "OSTREE"

\* What a Secondary answers during one command: its Root version for each
\* repository (-1: none), whether it accepts the Root of each version and
\* the metadata; and whether the credentials archive for OSTree
\* Secondaries can be built.
SecondaryAnswers ==
  [root_version : [Repos -> -1..MaxSecondaryRoot],
   putRoot : [Repos -> BOOLEAN],
   putMetadata : BOOLEAN]

\* A Secondary that is not asked: its answers do not matter.
Silent == [root_version |-> [r \in Repos |-> -1],
           putRoot |-> [r \in Repos |-> TRUE], putMetadata |-> TRUE]

\* The loop of rotateSecondaryRoot from version v: a Root that is not in
\* storage is fetched (fetched: the fetch succeeds), and a Root the
\* Secondary rejects does not end the loop.
RECURSIVE RotateFrom(_, _, _, _, _, _)
RotateFrom(r, s, v, last, ans, fetched) ==
  IF v > last THEN <<>>
  ELSE IF ~roots[r][v].present /\ ~fetched THEN <<>>
  ELSE <<Did("putRoot", s, NoTarget, <<r, v, ans.putRoot[r]>>)>>
       \o RotateFrom(r, s, v + 1, last, ans, fetched)

\* rotateSecondaryRoot
rotateSecondaryRoot(r, s, ans, fetched) ==
  IF StoredVersions(r) = {} THEN <<>>
  ELSE IF ans.root_version[r] < 0 THEN <<>>
  ELSE RotateFrom(r, s, ans.root_version[r] + 1, loadLatestRoot(r).version,
                  ans, fetched)

\* The loads at the head of sendMetadataToEcus all succeed.
MetaPackLoaded ==
  /\ StoredVersions("director") # {}
  /\ nonroot["director"]["targets"].present
  /\ StoredVersions("images") # {}
  /\ nonroot["images"]["timestamp"].present
  /\ nonroot["images"]["snapshot"].present
  /\ nonroot["images"]["targets"].present

\* A loop that ends when a Secondary rejects the metadata.
StopOnRejection == "stop"

\* What the loop does when putMetadata returns false: it logs an error.
OnRejection == "continue"

\* The loops of sendMetadataToEcus, from the i-th ECU of the t-th target.
RECURSIVE MetadataLoop(_, _, _, _, _)
MetadataLoop(targets, t, i, ans, fetched) ==
  IF t > Len(targets) THEN <<>>
  ELSE IF i > Len(targets[t].ecus)
       THEN MetadataLoop(targets, t + 1, 1, ans, fetched)
       ELSE LET ecu_serial == targets[t].ecus[i][1]
            IN (IF ecu_serial \in SecondarySerials
                THEN rotateSecondaryRoot("director", ecu_serial,
                                         ans[ecu_serial], fetched)
                     \o rotateSecondaryRoot("images", ecu_serial,
                                            ans[ecu_serial], fetched)
                     \o <<Did("putMetadata", ecu_serial, targets[t],
                              <<ans[ecu_serial].putMetadata>>)>>
                ELSE <<>>)
               \o (IF /\ ecu_serial \in SecondarySerials
                       /\ ~ans[ecu_serial].putMetadata
                       /\ OnRejection = "stop"
                    THEN <<>>
                    ELSE MetadataLoop(targets, t, i + 1, ans, fetched))

\* sendMetadataToEcus
sendMetadataToEcus(targets, ans, fetched) ==
  IF MetaPackLoaded THEN MetadataLoop(targets, 1, 1, ans, fetched) ELSE <<>>

\* sconfig.secondary_type: the second Secondary is an OPC-UA one.
SecondaryType(s) == IF s = "S2" THEN "kOpcuaUptane" ELSE "kVirtual"

\* A loop body that sends the image to every Secondary.
SendImage(ecu_serial, target, creds) ==
  <<Did("sendFirmware", ecu_serial, target, <<"image">>)>>

\* The body of the loops of sendImagesToEcus for a Secondary: an OPC-UA
\* Secondary gets the sysroot path and the hash; for an OSTree target
\* secondaryTreehubCredentials is called (creds: it gives an archive) and
\* the archive is sent unless it is empty; else the target file is sent.
SendFirmware(ecu_serial, target, creds) ==
  IF SecondaryType(ecu_serial) = "kOpcuaUptane"
  THEN <<Did("sendFirmware", ecu_serial, target, <<"sysroot">>)>>
  ELSE IF IsOstree(target)
  THEN <<Did("secondaryTreehubCredentials", ecu_serial, target, <<creds>>)>>
       \o (IF creds
            THEN <<Did("sendFirmware", ecu_serial, target, <<"credentials">>)>>
            ELSE <<>>)
  ELSE <<Did("sendFirmware", ecu_serial, target, <<"image">>)>>

\* The loops of sendImagesToEcus.
RECURSIVE ImagesLoop(_, _, _, _)
ImagesLoop(targets, t, i, creds) ==
  IF t > Len(targets) THEN <<>>
  ELSE IF i > Len(targets[t].ecus)
       THEN ImagesLoop(targets, t + 1, 1, creds)
       ELSE LET ecu_serial == targets[t].ecus[i][1]
            IN (IF ecu_serial \notin SecondarySerials THEN <<>>
                ELSE SendFirmware(ecu_serial, targets[t], creds))
               \o ImagesLoop(targets, t, i + 1, creds)

sendImagesToEcus(targets, creds) == ImagesLoop(targets, 1, 1, creds)

\* The codes package_manager_->install may give; an exception in it gives
\* InstallFailed (PackageInstall).
InstallCodes == {"Ok", "NeedCompletion", "InstallFailed"}

\* PackageInstallSetResult: the code of the result it stores.
ResultCode(t, code) ==
  IF ~IsOstree(t) /\ pacman = "ostree" THEN "ValidationFailed" ELSE code

\* A PackageInstallSetResult that hands every target to the package
\* manager.
AlwaysInstall(t) == TRUE

\* PackageInstallSetResult: package_manager_->install is called.
InstallCalled(t) == ~(~IsOstree(t) /\ pacman = "ostree")

\* A loop over the targets of the Primary without the break.
RECURSIVE InstallEvery(_, _)
InstallEvery(primary_updates, code) ==
  IF primary_updates = <<>> THEN <<>>
  ELSE LET t == Head(primary_updates)
       IN <<Did("updateNotify", PrimarySerial, t, <<>>),
            Did("install", PrimarySerial, t, <<code>>),
            Did("result", PrimarySerial, t, <<code>>)>>
          \o InstallEvery(Tail(primary_updates), code)

\* "7 - send images to ECUs", the part of the Primary: the first of the
\* targets of the Primary is installed unless it is the installed one.
PrimaryInstall(primary_updates, code) ==
  IF primary_updates = <<>> THEN <<>>
  ELSE LET t == Head(primary_updates)
       IN IF ~isInstalledOnPrimary(t)
          THEN <<Did("updateNotify", PrimarySerial, t, <<>>)>>
               \o (IF InstallCalled(t)
                   THEN <<Did("install", PrimarySerial, t, <<code>>)>>
                   ELSE <<>>)
               \o <<Did("result", PrimarySerial, t, <<ResultCode(t, code)>>)>>
          ELSE <<Did("result", PrimarySerial, t, <<"AlreadyProcessed">>)>>

\* The result PrimaryInstall stores last, if any.
StoredResult(log) ==
  LET results == SelectSeq(log, LAMBDA d : d.op = "result")
  IN IF results = <<>> THEN installation_result
     ELSE [id |-> results[Len(results)].target.filename,
           code |-> results[Len(results)].what[1]]

\* An UptaneInstall that emits its event before it installs.
EventBeforeInstall(metadata, primary, firmware) ==
  metadata \o <<Did("InstallComplete", "", NoTarget, <<>>)>>
  \o primary \o firmware

\* The UptaneInstall branch in the order of its statements: the metadata
\* is sent, the Primary's target is installed and its result stored, the
\* images are sent, and the InstallComplete event is put on the channel.
InstallSteps(metadata, primary, firmware) ==
  metadata \o primary \o firmware
  \o <<Did("InstallComplete", "", NoTarget, <<>>)>>

\* UptaneInstall
UptaneInstall ==
  /\ pc = "wait"
  /\ Len(installed_versions) < MaxInstalls
  /\ loaded_roles' = {} /\ downloads' = <<>> /\ fetch_results' = <<>>
  /\ UNCHANGED <<aux, servers, highest_stored, roots, nonroot, repo, last_exception,
                 installed_images, walk, pacman>>
  /\ \E updates \in InstallTargets :
     \E code \in IF findForEcu(updates, PrimarySerial) = <<>>
                 THEN {"Ok"} ELSE InstallCodes,
        ans \in [SecondarySerials ->
                  IF \E s \in SecondarySerials : findForEcu(updates, s) # <<>>
                  THEN SecondaryAnswers ELSE {Silent}],
        fetched \in IF \E r \in Repos, v \in Versions :
                         /\ v <= loadLatestRoot(r).version
                         /\ ~roots[r][v].present
                    THEN BOOLEAN ELSE {TRUE},
        creds \in IF \E i \in 1..Len(updates) : IsOstree(updates[i])
                  THEN BOOLEAN ELSE {TRUE} :
       LET primary_updates == findForEcu(updates, PrimarySerial)
           metadata == sendMetadataToEcus(updates, ans, fetched)
           primary == PrimaryInstall(primary_updates, code)
           firmware == sendImagesToEcus(updates, creds)
           installed == \E i \in 1..Len(primary) :
                          primary[i].op = "result" /\ primary[i].what[1] = "Ok"
       IN /\ Take("UptaneInstall", updates)
          /\ install_log' = InstallSteps(metadata, primary, firmware)
          /\ installation_result' = StoredResult(primary)
          /\ installed_versions' =
               IF installed
               THEN Append(installed_versions, Head(primary_updates).filename)
               ELSE installed_versions
          /\ pm_current' = IF installed THEN Head(primary_updates)
                           ELSE pm_current
          /\ pc' = "wait"
          /\ events' = <<"InstallComplete">>

(***************************************************************************)
(* Target selection on its own: getNewTargets applied to a Director        *)
(* Targets and an installed_images map.                                    *)
(***************************************************************************)
NoSelection == [targets |-> <<>>, installed |-> [s \in {} |-> ""],
                result |-> [ok |-> TRUE, targets |-> <<>>]]

\* Longest Director Targets given to the selection.
MaxSelect == 2

SelectTargetSet == {TCur, TNew, TSec, TBadHw, TUnknown, TBoth, TUnknownBadHw,
                    TBadHwUnknown, TPair}

\* The Director Targets getTargets() may return.
SelectInputs ==
  UNION { [1..n -> SelectTargetSet] : n \in 0..MaxSelect }

\* installed_images as AssembleManifest may leave it: the Primary's file
\* name, and the Secondary's when its manifest was included.
InstalledInputs ==
  { [s \in {PrimarySerial} |-> f] : f \in {"cur", "new"} } \cup
  { [s \in {PrimarySerial, "S1"} |-> IF s = PrimarySerial THEN f ELSE g] :
      f \in {"cur", "new"}, g \in {"sec0", "new"} }

(***************************************************************************)
(* The system.                                                             *)
(***************************************************************************)
NoResult == [id |-> "", code |-> "Ok"]

\* The PKCS#11 token: the identifiers (byte strings) of the public keys,
\* private keys and certificates on it, whether the engine has a
\* module_path_, and the last call of the engine: its identifier, what it
\* returned, whether it threw, whether it asked the token
\* (findTokenSlot), and whether the token answered.
NoP11Call == [op |-> "none", id |-> <<>>, result |-> FALSE, threw |-> FALSE,
              queried |-> FALSE, reachable |-> FALSE]

Token(module, certs) ==
  [module |-> module, public |-> {}, private |-> {}, certs |-> certs,
   last |-> NoP11Call]

\* A device without a token.
NoToken == Token(FALSE, {})

\* The storage of the ECUs: the serials stored at provisioning, the
\* misconfigured_ecus last stored, and what verifySecondaries did: whether
\* it ran, stored its list, read behind the end of the serials, crashed.
EcuStore(serials) ==
  [serials |-> serials, misconfigured |-> <<>>, verified |-> FALSE,
   written |-> FALSE, past_end |-> FALSE, crashed |-> FALSE]

\* The OSTree sysroot: commits, URIs, targets and calls.
Commits == {"c0", "c1", "c2"}

ValidServer == <<"https", "://", "treehub">>
NoSchemeServer == <<"treehub">>
OtherServer == <<"https", "://", "mirror">>
NoUri == <<>>

\* ostree_server.find("://") != std::string::npos
HasScheme(uri) == \E i \in 1..Len(uri) : uri[i] = "://"

\* The targets given to the package manager.
OTarget(h, type, uri) == [sha256Hash |-> h, type |-> type, uri |-> uri]

OstreeTargets ==
  { OTarget(h, "OSTREE", NoUri) : h \in Commits } \cup
  { OTarget("c1", "OSTREE", OtherServer), OTarget("c1", "BINARY", NoUri) }

NoCall == [op |-> "none", target |-> OTarget("", "", NoUri),
           success |-> FALSE, code |-> "", description |-> ""]

Called(op, target, success, code, description) ==
  [op |-> op, target |-> target, success |-> success, code |-> code,
   description |-> description]

\* No ostree_repo_pull_with_options is running and none has run.  token
\* is "none" (nullptr), "ok" or "aborted"; cancelled is the GCancellable
\* of the call; callbacks counts the progress callbacks of the call.
NoPull == [running |-> FALSE, target |-> OTarget("", "", NoUri),
           token |-> "none", cancelled |-> FALSE, callbacks |-> 0]

\* A device booted from the deployment of the commit c0.
Sysroot(server, booted) ==
  [commits |-> {"c0"}, deployments |-> <<"c0">>, booted |-> 1,
   remote |-> NoUri, reboot_flag |-> FALSE, reboot_detected |-> FALSE,
   ostree_server |-> server, config_booted |-> booted, last |-> NoCall,
   pulling |-> NoPull]

\* The Aktualizr object after its constructor: nothing was called yet.
Constructed == [pc |-> "constructed", initializer |-> FALSE, serials |-> <<>>,
                provisioned |-> FALSE, primary |-> "", calls |-> <<>>,
                shutdown_ |-> FALSE, late |-> 0]

\* No manifest command was processed yet.
NoPut == [answers |-> [s \in {} |-> NoResult], manifest |-> [s \in {} |-> NoResult],
          puts |-> <<>>, ok |-> FALSE]

\* The behaviours of the two servers that are explored: each repository
\* against a server that answers anything, the other server being quiet
\* (Director) or down (Image repository).
ServerCases ==
  { [r \in Repos |-> IF r = "director" THEN "any" ELSE "down"],
    [r \in Repos |-> IF r = "director" THEN "quiet" ELSE "any"] }

\* The client after construction, against the servers sc and with the
\* package manager pm configured.
Device(sc, pm, secs, res, sysroot) ==
  /\ servers = sc
  /\ pacman = pm
  /\ pc = "wait"
  /\ cmd = [variant |-> "none", updates |-> <<>>]
  /\ roots = [r \in Repos |-> [v \in Versions |-> NoRoot]]
  /\ nonroot = [r \in Repos |-> [role \in Roles |-> NoMeta]]
  /\ repo = [r \in Repos |-> EmptyRepo]
  /\ last_exception = ""
  /\ installed_images = [s \in {} |-> ""]
  /\ walk = NoWalk
  /\ events = <<>>
  /\ loaded_roles = {}
  /\ downloads = <<>> /\ fetch_results = <<>>
  /\ pm_current = TCur
  /\ installation_result = res
  /\ installed_versions = <<>>
  /\ install_log = <<>>
  /\ highest_stored = [r \in Repos |-> 0]
  /\ secondaries = secs
  /\ selection = NoSelection
  /\ api = Constructed
  /\ put_log = NoPut
  /\ ostree = sysroot
  /\ retry = NoRetry

\* The state after construction, on a device without a PKCS#11 token.
Construct(sc, pm, secs, res, sysroot) ==
  /\ Device(sc, pm, secs, res, sysroot)
  /\ p11 = NoToken
  /\ ecu_store = EcuStore(<<"P", "S1">>)

\* The device with one Secondary and no installation made yet.
Start(sc, pm) ==
  Construct(sc, pm, {"S1"}, NoResult, Sysroot(ValidServer, "booted"))

Init == \E sc \in ServerCases : Start(sc, "none")

DirectorLoadInitialRoot == LoadInitialRoot("director")
DirectorFetchLatestRoot == FetchLatestRoot("director")
DirectorWalkRoot == WalkRoot("director", "director_targets")
DirectorTargets == UpdateRole("director", "targets", "select")
ImagesLoadInitialRoot == LoadInitialRoot("images")
ImagesFetchLatestRoot == FetchLatestRoot("images")
ImagesWalkRoot == WalkRoot("images", "images_timestamp")
ImagesTimestamp == UpdateRole("images", "timestamp", "images_snapshot")
ImagesSnapshot == UpdateRole("images", "snapshot", "images_targets")
ImagesTargets == UpdateRole("images", "targets", "wait")

Next ==
  \/ FetchMeta
  \/ DirectorLoadInitialRoot
  \/ DirectorFetchLatestRoot
  \/ DirectorWalkRoot
  \/ DirectorTargets
  \/ SelectTargets
  \/ ImagesLoadInitialRoot
  \/ ImagesFetchLatestRoot
  \/ ImagesWalkRoot
  \/ ImagesTimestamp
  \/ ImagesSnapshot
  \/ ImagesTargets
  \/ CheckUpdates
  \/ StartDownload

Spec == Init /\ [][Next]_vars

\* The device against two servers that have published the first version
\* of every role, with either package manager, and installations.
InitInstall ==
  \E pm \in {"ostree", "none"} : Start([r \in Repos |-> "quiet"], pm)

\* The commands of this specification are FetchMeta and UptaneInstall.
NextInstall ==
  \/ FetchMeta
  \/ DirectorLoadInitialRoot
  \/ DirectorFetchLatestRoot
  \/ DirectorWalkRoot
  \/ DirectorTargets
  \/ SelectTargets
  \/ ImagesLoadInitialRoot
  \/ ImagesFetchLatestRoot
  \/ ImagesWalkRoot
  \/ ImagesTimestamp
  \/ ImagesSnapshot
  \/ ImagesTargets
  \/ UptaneInstall

SpecInstall == InitInstall /\ [][NextInstall]_vars

\* All that runForever works on.
client == <<servers, pc, cmd, roots, nonroot, repo, last_exception,
            installed_images, walk, events, loaded_roles, downloads, fetch_results, device,
            install_log, highest_stored>>

\* getNewTargets is applied to a Director Targets and an installed_images.
Select ==
  /\ selection = NoSelection
  /\ \E targets \in SelectInputs, installed \in InstalledInputs :
       selection' = [targets |-> targets, installed |-> installed,
                     result |-> getNewTargets(targets, installed)]
  /\ UNCHANGED <<client, secondaries, api, put_log, ostree, retry, p11, ecu_store>>

InitSelect == Start([r \in Repos |-> "quiet"], "none")

SpecSelect == InitSelect /\ [][Select]_vars

(***************************************************************************)
(* The manifest commands: PutManifest and SendDeviceData, on a device with *)
(* two Secondaries and any stored installation result.                     *)
(***************************************************************************)
\* What loadInstallationResult may load.
StoredResults ==
  {NoResult, [id |-> "new", code |-> "Ok"], [id |-> "new", code |-> "InProgress"]}

\* the PutManifest command
PutManifest ==
  /\ Take("PutManifest", <<>>)
  /\ loaded_roles' = {} /\ downloads' = <<>> /\ fetch_results' = <<>> /\ install_log' = <<>>
  /\ UNCHANGED <<secondaries, selection, api, ostree, retry, p11, ecu_store, servers, highest_stored,
                 roots, nonroot, repo, last_exception, walk, device>>
  /\ \E sm \in [SecondarySerials -> SecManifests], put_ok \in BOOLEAN :
       LET manifest == AssembleManifest(sm)
           ok == putManifest(manifest, put_ok)
       IN /\ installed_images' = InstalledImages(manifest)
          /\ put_log' = [answers |-> sm, manifest |-> manifest,
                         puts |-> ManifestPuts(manifest), ok |-> ok]
          /\ pc' = "wait"
          /\ events' = IF ok THEN <<"PutManifestComplete">> ELSE <<"Error">>

\* the SendDeviceData command: reportHwInfo (a PUT when there is hardware
\* information), reportInstalledPackages, reportNetworkInfo (a PUT when it
\* is enabled and the information differs from the last one reported) and
\* putManifest, whose result is not looked at.
SendDeviceData ==
  /\ Take("SendDeviceData", <<>>)
  /\ loaded_roles' = {} /\ downloads' = <<>> /\ fetch_results' = <<>> /\ install_log' = <<>>
  /\ UNCHANGED <<secondaries, selection, api, ostree, retry, p11, ecu_store, servers, highest_stored,
                 roots, nonroot, repo, last_exception, walk, device>>
  /\ \E sm \in [SecondarySerials -> SecManifests], put_ok \in BOOLEAN,
        hw_info \in BOOLEAN, network \in BOOLEAN :
       LET manifest == AssembleManifest(sm)
       IN /\ installed_images' = InstalledImages(manifest)
          /\ put_log' = [answers |-> sm, manifest |-> manifest,
                         puts |-> (IF hw_info THEN <<"system_info">> ELSE <<>>)
                                  \o <<"installed">>
                                  \o (IF network THEN <<"network">> ELSE <<>>)
                                  \o ManifestPuts(manifest),
                         ok |-> putManifest(manifest, put_ok)]
          /\ pc' = "wait"
          /\ events' = <<"SendDeviceDataComplete">>

InitManifest ==
  \E res \in StoredResults :
    Construct([r \in Repos |-> "quiet"], "none", {"S1", "S2"}, res,
              Sysroot(ValidServer, "booted"))

NextManifest ==
  \/ PutManifest
  \/ SendDeviceData

SpecManifest == InitManifest /\ [][NextManifest]_vars

(***************************************************************************)
(* Provisioning and the two ways into the client: the Aktualizr object     *)
(* (Initialize, then Run) and the command loop (runForever).  api.calls is *)
(* the sequence of what was asked of the client after provisioning.        *)
(***************************************************************************)
\* Most calls that are followed.
MaxPolls == 3

\* What loadEcuSerials may load.
SerialInputs == {<<>>, <<PrimarySerial>>, <<PrimarySerial, "S1">>}

\* SotaUptaneClient::initialize: its result and the serial it makes the
\* Primary's.
initialize(initializer_ok, serials) ==
  IF ~initializer_ok THEN [ok |-> FALSE, primary |-> ""]
  ELSE IF serials = <<>> THEN [ok |-> FALSE, primary |-> ""]
  ELSE [ok |-> TRUE, primary |-> serials[1]]

\* All but api.
outside_api == <<client, secondaries, selection, put_log, ostree, retry,
                p11, ecu_store>>

\* Aktualizr::Initialize: the result of initialize() is dropped.
Initialize ==
  /\ api.pc = "constructed"
  /\ \E initializer_ok \in BOOLEAN, serials \in SerialInputs :
       LET done == initialize(initializer_ok, serials)
       IN api' = [api EXCEPT !.pc = "initialized",
                             !.initializer = initializer_ok,
                             !.serials = serials,
                             !.provisioned = done.ok,
                             !.primary = done.primary]
  /\ UNCHANGED outside_api

\* Aktualizr::Run: SendDeviceData() before the loop.
RunSendDeviceData ==
  /\ api.pc = "initialized"
  /\ api' = [api EXCEPT !.pc = "polling",
                        !.calls = Append(@, "sendDeviceData")]
  /\ UNCHANGED outside_api

\* A loop that does not test shutdown_.
RunWhileTrue ==
  /\ api.pc = "polling"
  /\ Len(api.calls) <= MaxPolls
  /\ api' = [api EXCEPT !.pc = "in_loop"]
  /\ UNCHANGED outside_api

\* Aktualizr::Run: the test of while (!shutdown_) lets the loop go on.
RunWhile ==
  /\ api.pc = "polling" /\ ~api.shutdown_
  /\ Len(api.calls) <= MaxPolls
  /\ api' = [api EXCEPT !.pc = "in_loop"]
  /\ UNCHANGED outside_api

\* Aktualizr::Run: the body of the loop, FetchMetadata() and the sleep.
\* api.late counts the FetchMetadata calls begun with shutdown_ set.
RunFetchMetadata ==
  /\ api.pc = "in_loop"
  /\ api' = [api EXCEPT !.pc = "polling",
                        !.calls = Append(@, "fetchMeta"),
                        !.late = IF api.shutdown_ THEN @ + 1 ELSE @]
  /\ UNCHANGED outside_api

\* Aktualizr::Run returns when shutdown_ is set.
RunReturn ==
  /\ api.pc = "polling" /\ api.shutdown_
  /\ api' = [api EXCEPT !.pc = "returned"]
  /\ UNCHANGED outside_api

\* Aktualizr::Shutdown, at any moment.
Shutdown ==
  /\ api.pc \in {"constructed", "initialized", "polling", "in_loop"}
  /\ ~api.shutdown_
  /\ api' = [api EXCEPT !.shutdown_ = TRUE]
  /\ UNCHANGED outside_api

\* runForever up to its loop: it throws when initialize() fails.
runForeverInitialize ==
  /\ api.pc = "constructed" /\ ~api.shutdown_
  /\ \E initializer_ok \in BOOLEAN, serials \in SerialInputs :
       LET done == initialize(initializer_ok, serials)
       IN api' = [api EXCEPT !.pc = IF done.ok THEN "loop" ELSE "threw",
                             !.initializer = initializer_ok,
                             !.serials = serials,
                             !.provisioned = done.ok,
                             !.primary = done.primary]
  /\ UNCHANGED outside_api

\* runForever: a command is taken from the channel; Shutdown ends the
\* loop, the other commands call the client.
runForeverCommand ==
  /\ api.pc = "loop"
  /\ Len(api.calls) < MaxPolls
  /\ \E variant \in {"SendDeviceData", "PutManifest", "FetchMeta", "Shutdown"} :
       api' = IF variant = "Shutdown"
              THEN [api EXCEPT !.pc = "returned"]
              ELSE [api EXCEPT !.calls = Append(@, variant)]
  /\ UNCHANGED outside_api

InitApi == Start([r \in Repos |-> "quiet"], "none")

NextApi ==
  \/ Initialize
  \/ RunSendDeviceData
  \/ RunWhile
  \/ RunFetchMetadata
  \/ RunReturn
  \/ Shutdown
  \/ runForeverInitialize
  \/ runForeverCommand

SpecApi == InitApi /\ [][NextApi]_vars

\* Initialize and Run on one thread, Shutdown from another.  The thread
\* of Run goes on: FetchMetadata returns and the sleep ends.
NextRun ==
  \/ Initialize
  \/ RunSendDeviceData
  \/ RunWhile
  \/ RunFetchMetadata
  \/ RunReturn
  \/ Shutdown

SpecRun ==
  /\ InitApi
  /\ [][NextRun]_vars
  /\ WF_vars(RunWhile)
  /\ WF_vars(RunFetchMetadata)
  /\ WF_vars(RunReturn)

(***************************************************************************)
(* The sends to the Secondaries: the first UptaneInstall command on a      *)
(* device with two Secondaries that has metadata of both repositories in   *)
(* its storage, with Roots of the versions 1 to nd and 1 to ni.            *)
(***************************************************************************)
StoredRoots(n) ==
  [v \in Versions |->
     IF v <= n THEN [present |-> TRUE, version |-> v, expired |-> FALSE]
     ELSE NoRoot]

InitSend ==
  \E nd \in Versions, ni \in Versions :
    /\ servers = [r \in Repos |-> "quiet"]
    /\ pacman = "none"
    /\ pc = "wait"
    /\ cmd = [variant |-> "none", updates |-> <<>>]
    /\ roots = [r \in Repos |->
                  StoredRoots(IF r = "director" THEN nd ELSE ni)]
    /\ nonroot = [r \in Repos |-> [role \in Roles |->
                    IF r = "director" /\ role # "targets" THEN NoMeta
                    ELSE MetaOf(FirstMeta(r, role))]]
    /\ repo = [r \in Repos |-> EmptyRepo]
    /\ last_exception = ""
    /\ installed_images = [s \in {} |-> ""]
    /\ walk = NoWalk
    /\ events = <<>>
    /\ loaded_roles = {}
    /\ downloads = <<>> /\ fetch_results = <<>>
    /\ pm_current = TCur
    /\ installation_result = NoResult
    /\ installed_versions = <<>>
    /\ install_log = <<>>
    /\ highest_stored = [r \in Repos |-> 1]
    /\ secondaries = {"S1", "S2"}
    /\ selection = NoSelection
    /\ api = Constructed
    /\ put_log = NoPut
    /\ ostree = Sysroot(ValidServer, "booted")
    /\ retry = NoRetry
    /\ p11 = NoToken
    /\ ecu_store = EcuStore(<<"P", "S1", "S2">>)

\* The first command is an UptaneInstall.
FirstInstall == cmd.variant = "none" /\ UptaneInstall

SpecSend == InitSend /\ [][FirstInstall]_vars

(***************************************************************************)
(* FetchMeta against servers whose metadata does not change, on a device   *)
(* whose storage is empty or holds what a server that had rotated its Root *)
(* left there.                                                             *)
(***************************************************************************)
\* Storage after a FetchMeta against two "rotated" servers.
RotatedStorage(r, role) ==
  IF r = "director" /\ role # "targets" THEN NoMeta
  ELSE MetaOf(RoleDoc("rotated", r, role))

InitRetry ==
  \E sc \in [Repos -> {"quiet", "down"} \cup FixedServers],
     stored \in BOOLEAN :
    /\ servers = sc
    /\ pacman = "none"
    /\ pc = "wait"
    /\ cmd = [variant |-> "none", updates |-> <<>>]
    /\ roots = [r \in Repos |-> StoredRoots(IF stored THEN 2 ELSE 0)]
    /\ nonroot = [r \in Repos |-> [role \in Roles |->
                    IF stored THEN RotatedStorage(r, role) ELSE NoMeta]]
    /\ repo = [r \in Repos |-> EmptyRepo]
    /\ last_exception = ""
    /\ installed_images = [s \in {} |-> ""]
    /\ walk = NoWalk
    /\ events = <<>>
    /\ loaded_roles = {}
    /\ downloads = <<>> /\ fetch_results = <<>>
    /\ pm_current = TCur
    /\ installation_result = NoResult
    /\ installed_versions = <<>>
    /\ install_log = <<>>
    /\ highest_stored = [r \in Repos |-> IF stored THEN 2 ELSE 0]
    /\ secondaries = {"S1"}
    /\ selection = NoSelection
    /\ api = Constructed
    /\ put_log = NoPut
    /\ ostree = Sysroot(ValidServer, "booted")
    /\ retry = FirstTry
    /\ p11 = NoToken
    /\ ecu_store = EcuStore(<<"P", "S1">>)

\* The only command is FetchMeta.
NextRetry ==
  \/ FetchMeta
  \/ DirectorLoadInitialRoot
  \/ DirectorFetchLatestRoot
  \/ DirectorWalkRoot
  \/ DirectorTargets
  \/ SelectTargets
  \/ ImagesLoadInitialRoot
  \/ ImagesFetchLatestRoot
  \/ ImagesWalkRoot
  \/ ImagesTimestamp
  \/ ImagesSnapshot
  \/ ImagesTargets

SpecRetry == InitRetry /\ [][NextRetry]_vars

(***************************************************************************)
(* The PKCS#11 engine (P11Engine).  An identifier is a string of           *)
(* hexadecimal digits, given as the sequence of its characters; on the     *)
(* token it is the byte string boost::algorithm::unhex makes of it.        *)
(***************************************************************************)
\* Longest identifier given to the engine.
MaxIdLen == 2

HexDigits == {"0", "a", "A"}
HexValue(ch) == IF ch \in {"a", "A"} THEN 10 ELSE 0

KeyIds == UNION { [1..n -> HexDigits] : n \in 0..MaxIdLen }

\* boost::algorithm::unhex of an identifier of even length.
unhex(id) ==
  [i \in 1..(Len(id) \div 2) |->
     16 * HexValue(id[2 * i - 1]) + HexValue(id[2 * i])]

P11Called(t, op, id, result, threw, queried, reachable) ==
  [t EXCEPT !.last = [op |-> op, id |-> id, result |-> result,
                      threw |-> threw, queried |-> queried,
                      reachable |-> reachable]]

\* A read that takes any public key of the token.
ReadAnyKey(t, id, slot, enumerated) ==
  P11Called(t, "readUptanePublicKey", id, t.public # {}, FALSE, TRUE,
            slot /\ enumerated)

\* P11Engine::readUptanePublicKey.  slot: findTokenSlot finds the token
\* and logs in; enumerated: PKCS11_enumerate_public_keys succeeds.
readUptanePublicKey(t, id, slot, enumerated) ==
  IF ~t.module
  THEN P11Called(t, "readUptanePublicKey", id, FALSE, FALSE, FALSE, FALSE)
  ELSE IF Len(id) % 2 # 0
  THEN P11Called(t, "readUptanePublicKey", id, FALSE, FALSE, FALSE, FALSE)
  ELSE IF ~slot
  THEN P11Called(t, "readUptanePublicKey", id, FALSE, FALSE, TRUE, FALSE)
  ELSE IF ~enumerated
  THEN P11Called(t, "readUptanePublicKey", id, FALSE, FALSE, TRUE, FALSE)
  ELSE P11Called(t, "readUptanePublicKey", id, unhex(id) \in t.public,
                 FALSE, TRUE, TRUE)

\* P11Engine::readTlsCert
readTlsCert(t, id, slot, enumerated) ==
  IF ~t.module
  THEN P11Called(t, "readTlsCert", id, FALSE, FALSE, FALSE, FALSE)
  ELSE IF Len(id) % 2 # 0
  THEN P11Called(t, "readTlsCert", id, FALSE, FALSE, FALSE, FALSE)
  ELSE IF ~slot
  THEN P11Called(t, "readTlsCert", id, FALSE, FALSE, TRUE, FALSE)
  ELSE IF ~enumerated
  THEN P11Called(t, "readTlsCert", id, FALSE, FALSE, TRUE, FALSE)
  ELSE P11Called(t, "readTlsCert", id, unhex(id) \in t.certs,
                 FALSE, TRUE, TRUE)

\* What may go wrong in generateUptaneKeyPair.
GenerateFailures == {"none", "slot", "keygen", "private", "public"}

\* P11Engine::generateUptaneKeyPair: there is no check of the length of
\* the identifier, unhex throws when it is odd.
generateUptaneKeyPair(t, id, fails) ==
  IF ~t.module \/ fails = "slot"
  THEN P11Called(t, "generateUptaneKeyPair", id, FALSE, FALSE, TRUE, FALSE)
  ELSE IF Len(id) % 2 # 0
  THEN P11Called(t, "generateUptaneKeyPair", id, FALSE, TRUE, TRUE, TRUE)
  ELSE IF fails = "keygen"
  THEN P11Called(t, "generateUptaneKeyPair", id, FALSE, FALSE, TRUE, TRUE)
  ELSE IF fails = "private"
  THEN P11Called(t, "generateUptaneKeyPair", id, FALSE, FALSE, TRUE, TRUE)
  ELSE IF fails = "public"
  THEN P11Called([t EXCEPT !.private = @ \cup {unhex(id)}],
                 "generateUptaneKeyPair", id, FALSE, FALSE, TRUE, TRUE)
  ELSE P11Called([t EXCEPT !.private = @ \cup {unhex(id)},
                           !.public = @ \cup {unhex(id)}],
                 "generateUptaneKeyPair", id, TRUE, FALSE, TRUE, TRUE)

\* All but p11.
outside_p11 == <<client, secondaries, selection, api, put_log, ostree, retry,
                 ecu_store>>

ReadUptanePublicKey ==
  /\ \E id \in KeyIds, slot \in BOOLEAN, enumerated \in BOOLEAN :
       p11' = readUptanePublicKey(p11, id, slot, enumerated)
  /\ UNCHANGED outside_p11

ReadTlsCert ==
  /\ \E id \in KeyIds, slot \in BOOLEAN, enumerated \in BOOLEAN :
       p11' = readTlsCert(p11, id, slot, enumerated)
  /\ UNCHANGED outside_p11

GenerateUptaneKeyPair ==
  /\ \E id \in KeyIds, fails \in GenerateFailures :
       p11' = generateUptaneKeyPair(p11, id, fails)
  /\ UNCHANGED outside_p11

\* The engine with or without a module, on a token with or without a
\* certificate of the identifier 00.
InitP11 ==
  \E module \in BOOLEAN, certs \in {{}, {<<0>>}} :
    /\ Device([r \in Repos |-> "quiet"], "none", {"S1"}, NoResult,
              Sysroot(ValidServer, "booted"))
    /\ p11 = Token(module, certs)
    /\ ecu_store = EcuStore(<<"P", "S1">>)

NextP11 ==
  \/ ReadUptanePublicKey
  \/ ReadTlsCert
  \/ GenerateUptaneKeyPair

SpecP11 == InitP11 /\ [][NextP11]_vars

(***************************************************************************)
(* verifySecondaries: the stored serials against the Primary and the       *)
(* configured Secondaries.                                                 *)
(***************************************************************************)
\* Longest stored list of serials.
MaxSerials == 3

PrimaryEcuSerial == "P"
SerialNames == {"P", "S1", "S2", "X"}

\* The stored lists: a serial is stored once.
StoredSerials ==
  { l \in UNION { [1..n -> SerialNames] : n \in 0..MaxSerials } :
      \A i, j \in DOMAIN l : l[i] = l[j] => i = j }

\* What the read of *serials.end() gives: the process dies, or the bytes
\* behind the list are taken as a serial (a serial that was there, or
\* anything).
PastEndReads == {"crash", "garbage", "S2"}

\* std::find_if(serials.begin(), serials.end(), SerialCompare(serial)):
\* the first index of the serial, Len(serials) + 1 for serials.end().
FindIf(serials, serial) ==
  IF \E i \in DOMAIN serials : serials[i] = serial
  THEN CHOOSE i \in DOMAIN serials :
         /\ serials[i] = serial
         /\ \A j \in 1..(i - 1) : serials[j] # serial
  ELSE Len(serials) + 1

MisconfiguredEcu(serial, state) == [serial |-> serial, state |-> state]

\* The configured Secondaries in the order of the map.
SecondariesInOrder(secs) == SelectSeq(<<"S1", "S2">>, LAMBDA s : s \in secs)

\* verifySecondaries without the entries of the second loop.
VerifyStoredOnly(store, secs, past_end) ==
  LET serials == store.serials
      found == {FindIf(serials, PrimaryEcuSerial)}
                 \cup {FindIf(serials, s) : s \in secs}
      old == SelectSeq([i \in DOMAIN serials |-> i], LAMBDA i : i \notin found)
  IN [store EXCEPT !.verified = TRUE, !.written = serials # <<>>,
        !.misconfigured =
           IF serials = <<>> THEN @
           ELSE [i \in DOMAIN old |-> MisconfiguredEcu(serials[old[i]], "Old")]]

\* SotaUptaneClient::verifySecondaries
verifySecondaries(store, secs, past_end) ==
  LET serials == store.serials
      end == Len(serials) + 1
      primary_at == FindIf(serials, PrimaryEcuSerial)
      first == IF primary_at = end
               THEN <<MisconfiguredEcu(past_end, "Old")>>
               ELSE <<>>
      in_order == SecondariesInOrder(secs)
      missing == SelectSeq(in_order, LAMBDA s : FindIf(serials, s) = end)
      found == {primary_at} \cup {FindIf(serials, s) : s \in secs}
      old == SelectSeq([i \in DOMAIN serials |-> i], LAMBDA i : i \notin found)
  IN IF serials = <<>>
     THEN [store EXCEPT !.verified = TRUE]
     ELSE IF primary_at = end /\ past_end = "crash"
     THEN [store EXCEPT !.verified = TRUE, !.past_end = TRUE,
                        !.crashed = TRUE]
     ELSE [store EXCEPT
             !.verified = TRUE,
             !.written = TRUE,
             !.past_end = (primary_at = end),
             !.misconfigured =
                first
                \o [i \in DOMAIN missing |->
                      MisconfiguredEcu(missing[i], "NotRegistered")]
                \o [i \in DOMAIN old |->
                      MisconfiguredEcu(serials[old[i]], "Old")]]

\* All but ecu_store.
outside_ecus == <<client, secondaries, selection, api, put_log, ostree, retry,
                  p11>>

\* runForever calls verifySecondaries once, after initialize.
VerifySecondaries ==
  /\ ~ecu_store.verified
  /\ \E past_end \in PastEndReads :
       ecu_store' = verifySecondaries(ecu_store, secondaries, past_end)
  /\ UNCHANGED outside_ecus

InitVerify ==
  \E serials \in StoredSerials, secs \in SUBSET {"S1", "S2"} :
    /\ Device([r \in Repos |-> "quiet"], "none", secs, NoResult,
              Sysroot(ValidServer, "booted"))
    /\ p11 = NoToken
    /\ ecu_store = EcuStore(serials)

NextVerify == VerifySecondaries

SpecVerify == InitVerify /\ [][NextVerify]_vars

(***************************************************************************)
(* Installation results and their report: UptaneInstall and PutManifest    *)
(* on a device without Secondaries, and restarts of the process, which     *)
(* keep storage and lose everything else.                                  *)
(***************************************************************************)
\* The process ends and is started again.
Restart ==
  /\ pc' = "wait"
  /\ cmd' = [variant |-> "none", updates |-> <<>>]
  /\ repo' = [r \in Repos |-> EmptyRepo]
  /\ last_exception' = ""
  /\ installed_images' = [s \in {} |-> ""]
  /\ walk' = NoWalk
  /\ events' = <<>>
  /\ loaded_roles' = {} /\ downloads' = <<>> /\ fetch_results' = <<>> /\ install_log' = <<>>
  /\ api' = Constructed
  /\ put_log' = NoPut
  /\ UNCHANGED <<servers, roots, nonroot, device, highest_stored,
                 secondaries, selection, ostree, retry, p11, ecu_store>>

InitReport ==
  \E pm \in {"ostree", "none"} :
    Construct([r \in Repos |-> "quiet"], pm, {}, NoResult,
              Sysroot(ValidServer, "booted"))

NextReport ==
  \/ UptaneInstall
  \/ PutManifest
  \/ Restart

SpecReport == InitReport /\ [][NextReport]_vars

(***************************************************************************)
(* The OSTree package manager (OstreeManager).  ostree is the sysroot and  *)
(* what goes with it: the commits of the repository, the deployments (the  *)
(* newest first) and the index of the booted one, the configured remote,   *)
(* the bootloader's reboot flag and whether it detected a reboot, the      *)
(* configuration (ostree_server, booted), and the last call with its       *)
(* result.  A URI is the sequence of its parts.                            *)
(***************************************************************************)
\* data::InstallationResult(code, description): success is code == kOk.
Result(o, op, target, code, description) ==
  [o EXCEPT !.last = Called(op, target, code = "Ok", code, description)]

\* What may go wrong in a call, apart from what the state decides.
PullFailures == {"none", "repo", "remote_delete", "remote_add", "pull"}
InstallFailures == {"none", "repo", "cleanup", "deploy_tree", "write"}

\* OstreeManager::addRemote: the remote is deleted if it exists and added
\* anew.
addRemote(o, url, fails) ==
  IF fails = "remote_delete" THEN o
  ELSE IF fails = "remote_add" THEN [o EXCEPT !.remote = NoUri]
  ELSE [o EXCEPT !.remote = url]

\* OstreeManager::pull, as fetchTarget calls it (alt_remote is nullptr).
pull(o, target, fails) ==
  IF ~HasScheme(o.ostree_server)
  THEN Result(o, "pull", target, "InstallFailed", "Invalid OSTree URI")
  ELSE IF target.type # "OSTREE"
  THEN [o EXCEPT !.last = Called("pull", target, FALSE, "logic_error",
                                 "Invalid type of Target")]
  ELSE IF fails = "repo"
  THEN Result(o, "pull", target, "InstallFailed", "Could not get OSTree repo")
  ELSE IF target.sha256Hash \in o.commits
  THEN [o EXCEPT !.last = Called("pull", target, TRUE, "AlreadyProcessed",
                                 "Refhash was already pulled")]
  ELSE LET ostree_remote_uri == IF target.uri = NoUri THEN o.ostree_server
                                ELSE target.uri
           added == addRemote(o, ostree_remote_uri, fails)
       IN IF fails \in {"remote_delete", "remote_add"}
          THEN Result(added, "pull", target, "InstallFailed",
                      "Error adding a default OSTree remote")
          ELSE IF fails = "pull"
          THEN Result(added, "pull", target, "InstallFailed", "pull error")
          ELSE Result([added EXCEPT !.commits = @ \cup {target.sha256Hash}],
                      "pull", target, "Ok",
                      "Pulling OSTree image was successful")

\* OstreeManager::fetchTarget: a target that is not an OSTree target goes
\* to the base class, which does not touch the sysroot.
fetchTarget(o, target, fails) ==
  IF target.type # "OSTREE"
  THEN [o EXCEPT !.last = Called("fetchTarget", target, fails = "none",
                                 "", "PackageManagerInterface")]
  ELSE pull(o, target, fails)

\* An installation that writes no deployment.
KeepDeployments(o, revision) == o

\* ostree_sysroot_deploy_tree and ostree_sysroot_simple_write_deployment
\* without flags: the new deployment comes first, the merge deployment
\* (the first of the list) and the booted one are kept.
WriteDeployment(o, revision) ==
  [o EXCEPT !.deployments =
              <<revision>> \o
              (IF o.booted = 1 THEN <<o.deployments[1]>>
               ELSE <<o.deployments[1], o.deployments[o.booted]>>),
            !.booted = IF o.booted = 1 THEN 2 ELSE 3]

\* OstreeManager::install
install(o, target, fails) ==
  IF fails = "repo"
  THEN Result(o, "install", target, "InstallFailed", "could not get repo")
  ELSE IF target.sha256Hash \notin o.commits
  THEN Result(o, "install", target, "InstallFailed", "resolve_rev error")
  ELSE IF o.deployments = <<>>
  THEN Result(o, "install", target, "InstallFailed", "No merge deployment")
  ELSE IF fails \in {"cleanup", "deploy_tree", "write"}
  THEN Result(o, "install", target, "InstallFailed", fails)
  ELSE Result([WriteDeployment(o, target.sha256Hash)
                 EXCEPT !.reboot_flag = TRUE],
              "install", target, "NeedCompletion",
              "Application successful, need reboot")

\* OstreeManager::getCurrentHash
getCurrentHash(o) ==
  IF o.config_booted = "booted" THEN o.deployments[o.booted]
  ELSE o.deployments[1]

\* A finalizeInstall that does not look at what was booted.
FinalizeUnchecked(o, target) ==
  Result([o EXCEPT !.reboot_flag = FALSE], "finalizeInstall", target, "Ok",
         "Successfully booted on new version")

\* OstreeManager::finalizeInstall
finalizeInstall(o, target) ==
  IF ~o.reboot_detected
  THEN Result(o, "finalizeInstall", target, "NeedCompletion",
              "Reboot is required for the pending update application")
  ELSE IF getCurrentHash(o) # target.sha256Hash
  THEN Result([o EXCEPT !.reboot_flag = FALSE], "finalizeInstall", target,
              "InstallFailed", "Wrong version booted")
  ELSE Result([o EXCEPT !.reboot_flag = FALSE], "finalizeInstall", target,
              "Ok", "Successfully booted on new version")

\* OstreeManager::imageUpdated: no pending deployment, which is a
\* deployment in front of the booted one.
imageUpdated(o) == o.booted = 1

\* All but ostree.
outside_ostree == <<client, secondaries, selection, api, put_log, retry,
                   p11, ecu_store>>

FetchTarget ==
  /\ \E target \in OstreeTargets, fails \in PullFailures :
       ostree' = fetchTarget(ostree, target, fails)
  /\ UNCHANGED outside_ostree

Install ==
  /\ \E target \in OstreeTargets, fails \in InstallFailures :
       ostree' = install(ostree, target, fails)
  /\ UNCHANGED outside_ostree

FinalizeInstall ==
  /\ \E target \in OstreeTargets :
       ostree' = finalizeInstall(ostree, target)
  /\ UNCHANGED outside_ostree

\* The device reboots: it comes up in the newest deployment, or in the
\* one it ran before when the bootloader rolls back.  The bootloader has
\* detected a reboot when the reboot flag was set.
Reboot ==
  /\ \E rollback \in BOOLEAN :
       ostree' = [ostree EXCEPT !.booted = IF rollback THEN @ ELSE 1,
                                !.reboot_detected = ostree.reboot_flag,
                                !.last = NoCall]
  /\ UNCHANGED outside_ostree

InitOstree ==
  \E server \in {ValidServer, NoSchemeServer}, booted \in {"booted", "staged"} :
    Construct([r \in Repos |-> "quiet"], "ostree", {"S1"}, NoResult,
              Sysroot(server, booted))

NextOstree ==
  \/ FetchTarget
  \/ Install
  \/ FinalizeInstall
  \/ Reboot

SpecOstree == InitOstree /\ [][NextOstree]_vars

(***************************************************************************)
(* OstreeManager::pull step by step: the call of                           *)
(* ostree_repo_pull_with_options, the progress callbacks libostree makes   *)
(* while it runs, and the FlowControlToken another thread may abort.       *)
(***************************************************************************)
\* Most progress callbacks of one pull.
MaxCallbacks == 2

\* A progress callback that does not look at the token.
ProgressOnly(p) == [p EXCEPT !.callbacks = @ + 1]

\* aktualizr_progress_cb: the cancellable is cancelled when there is a
\* token and it cannot continue.
aktualizr_progress_cb(p) ==
  [p EXCEPT !.cancelled = @ \/ (p.token # "none" /\ p.token = "aborted"),
            !.callbacks = @ + 1]

\* pull up to ostree_repo_pull_with_options: it returns before the call
\* (as pull does), or the call starts with a new cancellable.
PullStart ==
  /\ ~ostree.pulling.running
  /\ \E target \in OstreeTargets,
        fails \in PullFailures \ {"pull"},
        token \in {"none", "ok", "aborted"} :
       LET whole == pull(ostree, target, fails)
       IN ostree' =
            IF whole.last.code # "Ok"
            THEN [whole EXCEPT !.pulling = NoPull]
            ELSE [whole EXCEPT !.commits = ostree.commits,
                               !.last = NoCall,
                               !.pulling = [running |-> TRUE,
                                            target |-> target,
                                            token |-> token,
                                            cancelled |-> FALSE,
                                            callbacks |-> 0]]
  /\ UNCHANGED outside_ostree

\* FlowControlToken::setAbort, by another thread.
TokenAbort ==
  /\ ostree.pulling.running
  /\ ostree.pulling.token = "ok"
  /\ ostree' = [ostree EXCEPT !.pulling.token = "aborted"]
  /\ UNCHANGED outside_ostree

\* libostree calls the progress callback.
ProgressCallback ==
  /\ ostree.pulling.running
  /\ ostree.pulling.callbacks < MaxCallbacks
  /\ ostree' = [ostree EXCEPT !.pulling = aktualizr_progress_cb(@)]
  /\ UNCHANGED outside_ostree

\* ostree_repo_pull_with_options returns: with an error when the
\* cancellable was cancelled or the pull failed, and else with the commit
\* in the repository.
PullReturn ==
  /\ ostree.pulling.running
  /\ \E pulled \in IF ostree.pulling.cancelled THEN {FALSE} ELSE BOOLEAN :
       LET ended == [ostree EXCEPT !.pulling.running = FALSE]
           target == ostree.pulling.target
       IN ostree' =
            IF pulled
            THEN Result([ended EXCEPT !.commits = @ \cup {target.sha256Hash}],
                        "pull", target, "Ok",
                        "Pulling OSTree image was successful")
            ELSE Result(ended, "pull", target, "InstallFailed", "pull error")
  /\ UNCHANGED outside_ostree

NextPull ==
  \/ PullStart
  \/ TokenAbort
  \/ ProgressCallback
  \/ PullReturn

SpecPull == InitOstree /\ [][NextPull]_vars

(***************************************************************************)
(* Properties.                                                             *)
(***************************************************************************)
\* C1: every target a StartDownload command gives to fetchVerifyTarget has
\* a target of the same file name, length and hash set in the Targets the
\* Image repository holds; a target without one is not fetched.
DownloadsAreMatched ==
  \A i \in 1..Len(downloads) : getTarget(downloads[i])

\* A StartDownload that fetched one of its targets and left out another
\* that the Image repository does not list.
DownloadLeftOneOut ==
  /\ cmd.variant = "StartDownload"
  /\ downloads # <<>>
  /\ \E i \in 1..Len(cmd.updates) : ~getTarget(cmd.updates[i])

\* C3: when storage holds a non-Root role at version v and the online
\* iteration has fetched and verified that role at a version lower than v,
\* the iteration fails in that step and storage is left as it was.
RollbackIsRejected ==
  [][\A r \in Repos, role \in Roles :
       (/\ pc = PcOf(r, role)
        /\ nonroot[r][role].present
        /\ repo'[r][role].present
        /\ repo'[r][role].version < nonroot[r][role].version)
       => (/\ pc' = "wait"
           /\ events' = Append(events, "Error")
           /\ nonroot' = nonroot)]_vars

\* A FetchMeta iteration has ended with Error over a role that is older
\* than the stored copy, which is still the stored copy.
RollbackSeen ==
  /\ pc = "wait" /\ cmd.variant = "FetchMeta"
  /\ events = <<"Error">>
  /\ \E r \in Repos, role \in Roles :
       /\ repo[r][role].present /\ nonroot[r][role].present
       /\ repo[r][role].version < nonroot[r][role].version

\* C4, as amended: while storage holds a copy of a non-Root role its
\* version never decreases, and the copy is removed only in a step that
\* stores a new Root of that repository.
StoredVersionGrowsOrRootChanges ==
  [][\A r \in Repos, role \in Roles :
       nonroot[r][role].present
       => IF nonroot'[r][role].present
          THEN nonroot'[r][role].version >= nonroot[r][role].version
          ELSE roots'[r] # roots[r]]_vars

\* C4, as stated: the stored Targets of a repository is never of a lower
\* version than one that was stored before.
StoredVersionNeverDecreases ==
  \A r \in Repos :
    nonroot[r]["targets"].present
    => nonroot[r]["targets"].version >= highest_stored[r]

\* After a Root rotation removed the stored Targets of a repository, a
\* Targets of a lower version than that one is stored.
StoredAgainAfterRotation ==
  \E r \in Repos :
    /\ Cardinality(StoredVersions(r)) > 1
    /\ nonroot[r]["targets"].present
    /\ nonroot[r]["targets"].version < highest_stored[r]

\* C5: a step that stores a new Root of a repository leaves no non-Root
\* role of it in the repository object or in storage; a role that is absent
\* from storage appears there only in the step that fetched and verified
\* it, and a role absent from the repository object appears there only in
\* that step or when CheckUpdates loads the stored copy.
NewRootDropsNonRoot ==
  [][\A r \in Repos, role \in Roles :
       /\ roots'[r] # roots[r]
          => ~nonroot'[r][role].present /\ ~repo'[r][role].present
       /\ (~nonroot[r][role].present /\ nonroot'[r][role].present)
          => pc = PcOf(r, role) /\ nonroot'[r][role] = repo'[r][role]
       /\ (~repo[r][role].present /\ repo'[r][role].present)
          => \/ pc = PcOf(r, role)
             \/ /\ pc = "wait" /\ cmd'.variant = "CheckUpdates"
                /\ repo'[r][role] = nonroot[r][role]]_vars

\* The Root walk has just accepted a new Root of a repository of which a
\* Targets had been stored.
RootJustRotated ==
  \E r \in Repos :
    /\ pc = PcOf(r, "root_walk")
    /\ walk.version > walk.first
    /\ highest_stored[r] > 0
    /\ ~nonroot[r]["targets"].present

\* C6: when the Root a repository holds after the Root walk is expired,
\* the online iteration ends in that step with Error and ExpiredMetadata,
\* no non-Root role of the repository in memory and storage untouched; and
\* a CheckUpdates over a stored Root that is expired loads no non-Root role
\* of that repository and finds no update (for the Director: it sets
\* ExpiredMetadata and emits nothing).
ExpiredRootStopsIteration ==
  [][/\ \A r \in Repos :
          (/\ pc = PcOf(r, "root_walk")
           /\ walk.version > walk.remote
           /\ repo[r].root.expired)
          => (/\ pc' = "wait"
              /\ last_exception' = "ExpiredMetadata"
              /\ events' = Append(events, "Error")
              /\ nonroot' = nonroot
              /\ \A role \in Roles : ~repo'[r][role].present)
     /\ \A r \in Repos :
          (/\ pc = "wait" /\ cmd'.variant = "CheckUpdates"
           /\ loadLatestRoot(r).expired)
          => (/\ \A role \in Roles : <<r, role>> \notin loaded_roles'
              /\ events' # <<"UpdateAvailable">>
              /\ r = "director"
                 => /\ last_exception' = "ExpiredMetadata"
                    /\ events' = <<>>
                    /\ loaded_roles' = {})]_vars

\* A FetchMeta iteration has ended with Error and ExpiredMetadata over an
\* expired Root, with no non-Root role of that repository in memory.
ExpiredRootSeen ==
  /\ pc = "wait" /\ cmd.variant = "FetchMeta"
  /\ events = <<"Error">> /\ last_exception = "ExpiredMetadata"
  /\ \E r \in Repos :
       /\ repo[r].root.expired
       /\ \A role \in Roles : ~repo[r][role].present

\* C7: no non-Root role that storage holds is expired (a role that is
\* verified but expired is not written).
StoredRolesAreNotExpired ==
  \A r \in Repos, role \in Roles :
    nonroot[r][role].present => ~nonroot[r][role].expired

\* C8: a StartDownload fetches nothing while the Targets the Image
\* repository holds is one an iteration rejected: an expired one, or one
\* older than the stored copy.
NoDownloadOnRejectedTargets ==
  (cmd.variant = "StartDownload" /\ downloads # <<>>)
  => /\ ~repo["images"]["targets"].expired
     /\ ~(/\ nonroot["images"]["targets"].present
          /\ repo["images"]["targets"].version
               < nonroot["images"]["targets"].version)

\* The limit of C9 in this model: lower than the number of Root versions
\* between the first version and the highest a server may report.
RootWalkLimit == MaxVersion - 2

\* C9: the Root walk of an iteration goes through no more than
\* RootWalkLimit versions.
RootWalkIsBounded ==
  \A r \in Repos :
    pc = PcOf(r, "root_walk") => walk.version - walk.first <= RootWalkLimit

\* C10: the versions under which storage holds a Root of a repository are
\* a range from 1 without a gap.
StoredRootsHaveNoGap ==
  \A r \in Repos : \A v \in StoredVersions(r) :
    \A w \in 1..v : w \in StoredVersions(r)

\* C2: whatever UptaneInstall installs on the Primary or sends to a
\* Secondary is a target of which every ECU is in hw_ids with the
\* hardware identifier the target gives for it.
OnlyInventoryEcusAreServed ==
  \A i \in 1..Len(install_log) :
    install_log[i].op \in {"install", "putMetadata", "sendFirmware"}
    => \A j \in 1..Len(install_log[i].target.ecus) :
         LET ecu == install_log[i].target.ecus[j]
         IN ecu[1] \in DOMAIN hw_ids /\ hw_ids[ecu[1]] = ecu[2]

\* The steps of updateImagesMeta.
ImagesSteps == {"images_root_init", "images_root_latest", "images_root_walk",
                "images_timestamp", "images_snapshot", "images_targets"}

\* The role is one the Image repository object holds as accepted: there,
\* not expired and not older than the stored copy.
HeldGood(role) ==
  /\ repo["images"][role].present
  /\ ~repo["images"][role].expired
  /\ nonroot["images"][role].present
     => repo["images"][role].version >= nonroot["images"][role].version

\* C11: in the Image repository the roles are handled in the order Root,
\* Timestamp, Snapshot, Targets.  Online, a role is fetched only with every
\* earlier role held as accepted and no later role held; offline, a role
\* is loaded only with every earlier role held as accepted; and a later
\* role is never held without the earlier ones held as accepted.
ImageRolesInOrder ==
  /\ pc \in {"images_timestamp", "images_snapshot", "images_targets"}
     => repo["images"].root.present /\ ~repo["images"].root.expired
  /\ pc = "images_timestamp"
     => \A role \in Roles : ~repo["images"][role].present
  /\ pc = "images_snapshot"
     => /\ HeldGood("timestamp")
        /\ ~repo["images"]["snapshot"].present
        /\ ~repo["images"]["targets"].present
  /\ pc = "images_targets"
     => /\ HeldGood("timestamp") /\ HeldGood("snapshot")
        /\ ~repo["images"]["targets"].present
  /\ <<"images", "timestamp">> \in loaded_roles
     => repo["images"].root.present /\ ~repo["images"].root.expired
  /\ <<"images", "snapshot">> \in loaded_roles
     => <<"images", "timestamp">> \in loaded_roles /\ HeldGood("timestamp")
  /\ <<"images", "targets">> \in loaded_roles
     => <<"images", "snapshot">> \in loaded_roles /\ HeldGood("snapshot")
  /\ repo["images"]["snapshot"].present => HeldGood("timestamp")
  /\ repo["images"]["targets"].present => HeldGood("snapshot")

\* A CheckUpdates stopped at the Snapshot of the Image repository and did
\* not load its Targets.
OfflineStoppedAtSnapshot ==
  /\ pc = "wait" /\ cmd.variant = "CheckUpdates"
  /\ <<"images", "snapshot">> \in loaded_roles
  /\ <<"images", "targets">> \notin loaded_roles

\* C12: updateImagesMeta is entered only from the selection, with the
\* Director Targets accepted and at least one new target; a selection
\* without a new target ends the iteration with FetchMetaComplete and the
\* Image repository untouched.  Offline, the Image repository is loaded
\* only when the selection over the loaded Director Targets found a new
\* target, and without one CheckUpdates emits UptaneTimestampUpdated.
DirectorBeforeImages ==
  [][LET sel == getNewTargets(getTargets("director"), installed_images)
         sel_off == getNewTargets(TargetsOf("director", repo'["director"]),
                                  installed_images')
         images_touched ==
           \/ roots'["images"] # roots["images"]
           \/ nonroot'["images"] # nonroot["images"]
           \/ repo'["images"] # repo["images"]
           \/ \E role \in Roles : <<"images", role>> \in loaded_roles'
     IN /\ (pc' \in ImagesSteps /\ pc \notin ImagesSteps)
           => /\ pc = "select"
              /\ repo["director"]["targets"].present
              /\ ~repo["director"]["targets"].expired
              /\ sel.ok /\ sel.targets # <<>>
        /\ (pc = "select" /\ sel.ok /\ sel.targets = <<>>)
           => /\ pc' = "wait"
              /\ events' = Append(events, "FetchMetaComplete")
              /\ ~images_touched
        /\ images_touched
           => \/ pc \in ImagesSteps
              \/ /\ pc = "wait" /\ cmd'.variant = "CheckUpdates"
                 /\ sel_off.ok /\ sel_off.targets # <<>>
        /\ (/\ pc = "wait" /\ cmd'.variant = "CheckUpdates"
            /\ <<"director", "targets">> \in loaded_roles'
            /\ repo'["director"]["targets"].present
            /\ ~repo'["director"]["targets"].expired
            /\ sel_off.ok /\ sel_off.targets = <<>>)
           => /\ events' = <<"UptaneTimestampUpdated">>
              /\ ~images_touched]_vars

\* A FetchMeta iteration has ended well after a selection that found no
\* new target, without a step of updateImagesMeta.
EndedWithoutImages ==
  /\ pc = "wait" /\ cmd.variant = "FetchMeta"
  /\ events = <<"FetchMetaComplete">>
  /\ getNewTargets(getTargets("director"), installed_images).targets = <<>>
  /\ repo["director"]["targets"].present

\* The target names a serial that is not in hw_ids.
NamesUnknown(t) ==
  \E i \in 1..Len(t.ecus) : t.ecus[i][1] \notin DOMAIN hw_ids

\* The target gives a serial of hw_ids a hardware identifier that is not
\* the one of hw_ids.
DeclaresWrongHw(t) ==
  \E i \in 1..Len(t.ecus) :
    /\ t.ecus[i][1] \in DOMAIN hw_ids
    /\ hw_ids[t.ecus[i][1]] # t.ecus[i][2]

\* The same, at an ECU before which, in the order of the serials, every
\* ECU is in hw_ids and in installed.
WrongHwComesFirst(t, installed) ==
  \E i \in 1..Len(t.ecus) :
    /\ t.ecus[i][1] \in DOMAIN hw_ids
    /\ hw_ids[t.ecus[i][1]] # t.ecus[i][2]
    /\ \A j \in 1..(i - 1) :
         /\ t.ecus[j][1] \in DOMAIN hw_ids
         /\ t.ecus[j][1] \in DOMAIN installed

\* The targets of a list that name no unknown serial, in the same order.
WithoutUnknown(targets) == SelectSeq(targets, LAMBDA t : ~NamesUnknown(t))

WrongHwFailsSelection ==
  (\E i \in 1..Len(selection.targets) :
     DeclaresWrongHw(selection.targets[i]))
  => ~selection.result.ok

\* C15: no target is returned as new whose file name is the installed one
\* on every ECU it names.
InstalledIsOmitted ==
  \A i \in 1..Len(selection.result.targets) :
    LET t == selection.result.targets[i]
    IN ~(\A j \in 1..Len(t.ecus) :
           /\ t.ecus[j][1] \in DOMAIN selection.installed
           /\ selection.installed[t.ecus[j][1]] = t.filename)

\* C16: when a command has been processed and the loop of runForever waits
\* for the next one, the command has emitted exactly one event (whichever
\* event: a *Complete event, Error, or the events UpdateAvailable and
\* UptaneTimestampUpdated that report the outcome of a check).
EveryCommandEndsWithOneEvent ==
  (pc = "wait" /\ cmd.variant # "none") => Len(events) = 1

\* C17: a CheckUpdates command on a device that has no Director Root in
\* its storage fails (uptaneOfflineIteration returns false), and a failed
\* command ends with the Error event.
FailedCommandEmitsError ==
  [][(pc = "wait" /\ cmd'.variant = "CheckUpdates"
        /\ StoredVersions("director") = {})
       => events' = <<"Error">>]_vars

\* C18: as long as provisioning has not succeeded, nothing is asked of the
\* client: no device data is sent, no manifest is PUT, no metadata fetched.
NoCallsWithoutProvisioning ==
  ~api.provisioned => api.calls = <<>>

\* C19: a manifest command makes the PUT of the manifest only when no
\* entry of the assembled manifest reports the result code InProgress;
\* when one does, the PUT is not made and putManifest returns false.
NoPutWhilePending ==
  LET pending == \E s \in DOMAIN put_log.manifest :
                   /\ put_log.manifest[s].custom
                   /\ put_log.manifest[s].code = "InProgress"
      put_made == \E i \in 1..Len(put_log.puts) : put_log.puts[i] = "manifest"
  IN (pending => ~put_made /\ ~put_log.ok)
     /\ (cmd.variant = "PutManifest" /\ pending => events = <<"Error">>)

\* C19: a manifest with a pending entry was assembled.
PendingWasAssembled ==
  /\ cmd.variant = "PutManifest"
  /\ put_log.manifest[PrimarySerial].code # "InProgress"
  /\ "S2" \in DOMAIN put_log.manifest
  /\ put_log.manifest["S2"].code = "InProgress"
  /\ put_log.puts = <<>>

\* C20: after a manifest command the assembled manifest has the entry of a
\* Secondary exactly when what it answered has signed and signatures and
\* the signature verifies, the entry is what it answered, and the Primary's
\* entry is the Primary's whatever the Secondaries answered.
OnlyVerifiedSecondariesIncluded ==
  cmd.variant \in {"PutManifest", "SendDeviceData"} =>
    /\ \A s \in secondaries :
         /\ s \in DOMAIN put_log.manifest
              <=> (put_log.answers[s].signed /\ put_log.answers[s].verified)
         /\ s \in DOMAIN put_log.manifest
              => put_log.manifest[s] = put_log.answers[s]
    /\ PrimarySerial \in DOMAIN put_log.manifest
    /\ put_log.manifest[PrimarySerial] = PrimaryManifest
    /\ DOMAIN put_log.manifest \subseteq {PrimarySerial} \cup secondaries

\* C20: one Secondary was left out and the other is in the manifest.
OneSecondaryLeftOut ==
  /\ cmd.variant = "PutManifest"
  /\ put_log.answers["S1"].signed /\ ~put_log.answers["S1"].verified
  /\ DOMAIN put_log.manifest = {PrimarySerial, "S2"}
  /\ put_log.puts = <<"manifest">>

\* C21: with the OSTree package manager, package_manager_->install is
\* called for no target that is not an OSTree target, and when
\* PackageInstallSetResult was given such a target (the bootloader was
\* notified for it), the stored installation result is ValidationFailed
\* for that target and the target is not in the installed-version log.
OstreeRefusesOtherTargets ==
  pacman = "ostree" =>
    \A i \in 1..Len(install_log) :
      LET d == install_log[i]
      IN /\ d.op = "install" => d.target.type = "OSTREE"
         /\ (d.op = "updateNotify" /\ d.target.type # "OSTREE")
              => /\ installation_result =
                      [id |-> d.target.filename, code |-> "ValidationFailed"]
                 /\ \A k \in 1..Len(installed_versions) :
                      installed_versions[k] # d.target.filename

\* C21: a target that is not an OSTree target was refused.
OtherTargetRefused ==
  /\ pacman = "ostree"
  /\ cmd.variant = "UptaneInstall"
  /\ cmd.updates = <<TNew>>
  /\ installation_result = [id |-> "new", code |-> "ValidationFailed"]
  /\ \E i \in 1..Len(install_log) : install_log[i].op = "updateNotify"
  /\ \A i \in 1..Len(install_log) : install_log[i].op # "install"

\* C22: with a package manager that is not OSTree,
\* package_manager_->install is called for no OSTree target.
OtherManagerRefusesOstree ==
  pacman # "ostree" =>
    \A i \in 1..Len(install_log) :
      install_log[i].op = "install" => install_log[i].target.type # "OSTREE"

\* C23: within an UptaneInstall command, firmware is sent to a Secondary
\* only after a putMetadata to that Secondary earlier in the command, and
\* no Root is pushed to a Secondary after its last putMetadata.
FirmwareFollowsMetadata ==
  \A i \in 1..Len(install_log) :
    /\ install_log[i].op = "sendFirmware"
         => \E j \in 1..(i - 1) : /\ install_log[j].op = "putMetadata"
                                  /\ install_log[j].ecu = install_log[i].ecu
    /\ install_log[i].op = "putRoot"
         => \E j \in (i + 1)..Len(install_log) :
              /\ install_log[j].op = "putMetadata"
              /\ install_log[j].ecu = install_log[i].ecu

\* C24: once a Secondary has rejected the Root of a version, the rotation
\* does not push it the Root of the next version of the same repository.
RotationHaltsAtRejection ==
  \A i \in 1..(Len(install_log) - 1) :
    LET d == install_log[i]
        e == install_log[i + 1]
    IN (d.op = "putRoot" /\ ~d.what[3])
         => ~(/\ e.op = "putRoot" /\ e.ecu = d.ecu
              /\ e.what[1] = d.what[1] /\ e.what[2] = d.what[2] + 1)

\* C25: in an UptaneInstall command on a device that has the metadata in
\* its storage, every Secondary a target of the command names gets a
\* putMetadata and, for a target that is not an OSTree target, the
\* firmware, whatever the Secondaries (itself included) answered to the
\* Roots and to the metadata.
RejectionDoesNotStopOthers ==
  (cmd.variant = "UptaneInstall" /\ pc = "wait" /\ MetaPackLoaded) =>
    \A s \in secondaries :
      \A t \in 1..Len(cmd.updates) :
        (Addresses(cmd.updates[t], s) /\ cmd.updates[t].type # "OSTREE")
          => /\ \E j \in 1..Len(install_log) :
                  /\ install_log[j].op = "putMetadata"
                  /\ install_log[j].ecu = s
                  /\ install_log[j].target = cmd.updates[t]
             /\ \E j \in 1..Len(install_log) :
                  /\ install_log[j].op = "sendFirmware"
                  /\ install_log[j].ecu = s
                  /\ install_log[j].target = cmd.updates[t]

\* C25: the first Secondary rejected a Root and the metadata, and the
\* second one was then sent a Root, the metadata and the firmware.
SecondServedAfterRejection ==
  /\ cmd.updates = <<TTwoSec>>
  /\ \E i, j, k, l, m \in 1..Len(install_log) :
       /\ i < j /\ j < k /\ k < l /\ l < m
       /\ install_log[i].op = "putRoot" /\ install_log[i].ecu = "S1"
       /\ ~install_log[i].what[3]
       /\ install_log[j].op = "putMetadata" /\ install_log[j].ecu = "S1"
       /\ ~install_log[j].what[1]
       /\ install_log[k].op = "putRoot" /\ install_log[k].ecu = "S2"
       /\ install_log[l].op = "putMetadata" /\ install_log[l].ecu = "S2"
       /\ install_log[m].op = "sendFirmware" /\ install_log[m].ecu = "S2"

\* C26: in an UptaneInstall command the installation on the Primary and
\* the write of its result come before the InstallComplete event, and
\* when the event is out, storage holds the result and, for the result
\* Ok, the installed version.
StoredBeforeInstallComplete ==
  \A i \in 1..Len(install_log) :
    install_log[i].op = "InstallComplete" =>
      /\ \A j \in 1..Len(install_log) :
           install_log[j].op \in {"install", "result"} => j < i
      /\ events = <<"InstallComplete">>
      /\ \A j \in 1..Len(install_log) :
           install_log[j].op = "result" =>
             /\ installation_result =
                  [id |-> install_log[j].target.filename,
                   code |-> install_log[j].what[1]]
             /\ install_log[j].what[1] = "Ok" =>
                  \E k \in 1..Len(installed_versions) :
                    installed_versions[k] = install_log[j].target.filename

\* C26: an installation on the Primary with the result Ok was followed by
\* the event.
InstalledThenComplete ==
  /\ events = <<"InstallComplete">>
  /\ installed_versions = <<"new">>
  /\ \E j \in 1..Len(install_log) :
       install_log[j].op = "result" /\ install_log[j].what[1] = "Ok"

\* C27: an UptaneInstall command with a target for the Primary leaves in
\* storage a result for the first such target, with the code the package
\* manager gave when it was called; a restart keeps the stored result;
\* and the manifest a PutManifest command assembles has the stored result
\* as the operation result of the Primary's entry.
ResultIsStoredAndReported ==
  [][/\ (cmd'.variant = "UptaneInstall"
           /\ findForEcu(cmd'.updates, PrimarySerial) # <<>>)
          => /\ installation_result'.id =
                  Head(findForEcu(cmd'.updates, PrimarySerial)).filename
             /\ installation_result'.code \in
                  {"Ok", "NeedCompletion", "InstallFailed",
                   "ValidationFailed", "AlreadyProcessed"}
             /\ \A j \in 1..Len(install_log') :
                  install_log'[j].op = "install"
                    => installation_result'.code = install_log'[j].what[1]
     /\ (cmd.variant # "none" /\ cmd'.variant = "none")
          => installation_result' = installation_result
     /\ (cmd'.variant = "PutManifest" /\ installation_result.id # "")
          => /\ put_log'.manifest[PrimarySerial].custom
             /\ put_log'.manifest[PrimarySerial].code =
                  installation_result.code]_vars

\* C27: the manifest reports a refused installation.
RefusalReported ==
  /\ cmd.variant = "PutManifest"
  /\ installation_result = [id |-> "new", code |-> "ValidationFailed"]
  /\ put_log.manifest[PrimarySerial].custom
  /\ put_log.manifest[PrimarySerial].code = "ValidationFailed"

\* C28: finalizeInstall, when the bootloader detected a reboot, returns Ok
\* if the current hash (of the booted deployment, or of the first one
\* when the configuration says staged) is the hash of the target and
\* InstallFailed otherwise, and clears the reboot flag; when no reboot
\* was detected it returns NeedCompletion and leaves the flag as it is.
\* It changes nothing else.
FinalizeComparesBootedHash ==
  [][ostree'.last.op = "finalizeInstall" =>
       LET current_hash == IF ostree.config_booted = "booted"
                           THEN ostree.deployments[ostree.booted]
                           ELSE ostree.deployments[1]
       IN /\ IF ostree.reboot_detected
             THEN /\ ostree'.last.code =
                       IF current_hash = ostree'.last.target.sha256Hash
                       THEN "Ok" ELSE "InstallFailed"
                  /\ ostree'.last.code = "InstallFailed"
                       => ostree'.last.description = "Wrong version booted"
                  /\ ~ostree'.reboot_flag
             ELSE /\ ostree'.last.code = "NeedCompletion"
                  /\ ostree'.reboot_flag = ostree.reboot_flag
          /\ ostree'.deployments = ostree.deployments
          /\ ostree'.booted = ostree.booted
          /\ ostree'.commits = ostree.commits]_vars

\* C28: after a rollback finalizeInstall reported the wrong version and
\* cleared the flag.
WrongVersionBooted ==
  /\ ostree.last.op = "finalizeInstall"
  /\ ostree.last.code = "InstallFailed"
  /\ ostree.reboot_detected /\ ~ostree.reboot_flag
  /\ ostree.config_booted = "booted"
  /\ ostree.booted = 2
  /\ ostree.deployments[1] = ostree.last.target.sha256Hash

\* C29 (as the code has it): after install returns NeedCompletion
\* imageUpdated is false, it stays false in every call until a reboot,
\* a reboot into the newest deployment makes it true, and finalizeInstall
\* does not change it.
PendingUntilBooted ==
  [][/\ (ostree'.last.op = "install" /\ ostree'.last.code = "NeedCompletion")
          => ~imageUpdated(ostree')
     /\ (~imageUpdated(ostree) /\ ostree'.last.op # "none")
          => ~imageUpdated(ostree')
     /\ (ostree'.last.op = "none" /\ ostree'.booted = 1)
          => imageUpdated(ostree')
     /\ ostree'.last.op = "finalizeInstall"
          => imageUpdated(ostree') = imageUpdated(ostree)]_vars

\* C29 (as stated): after finalizeInstall has run, imageUpdated is true.
UpdatedAfterFinalize ==
  ostree.last.op = "finalizeInstall" => imageUpdated(ostree)

\* C29: an installation was booted and finalized, and the image counts as
\* updated.
FinalizedAfterBoot ==
  /\ ostree.last.op = "finalizeInstall"
  /\ ostree.last.code = "Ok"
  /\ ostree.last.target.sha256Hash = "c1"
  /\ ostree.deployments = <<"c1", "c0">>
  /\ imageUpdated(ostree)

\* C30: a fetch of an OSTree target whose commit is in the repository,
\* when the repository can be opened, succeeds with AlreadyProcessed and
\* changes neither the commits nor the remote.
FetchOfPresentCommitSucceeds ==
  [][(ostree'.last.op = "pull"
        /\ ostree'.last.target.sha256Hash \in ostree.commits
        /\ ostree'.last.description # "Could not get OSTree repo")
       => /\ ostree'.last.success
          /\ ostree'.last.code = "AlreadyProcessed"
          /\ ostree'.commits = ostree.commits
          /\ ostree'.remote = ostree.remote]_vars

\* C31: a StartDownload command emits DownloadComplete only when every
\* target of the command was given to fetchVerifyTarget and every one of
\* these calls returned that the image was fetched and verified.
CompleteOnlyWhenAllDownloaded ==
  (cmd.variant = "StartDownload"
     /\ \E i \in 1..Len(events) : events[i] = "DownloadComplete")
    => /\ Len(downloads) = Len(cmd.updates)
       /\ Len(fetch_results) = Len(downloads)
       /\ \A i \in 1..Len(fetch_results) : fetch_results[i]

\* C32: a CheckUpdates command is one step that starts no fetch and leaves
\* the stored Roots and roles as they are; it emits UptaneTimestampUpdated
\* or UpdateAvailable only when the stored Director Root and Targets were
\* loaded and are not expired, and UpdateAvailable only when moreover the
\* Director Targets hold a new target and the stored Root, Timestamp,
\* Snapshot and Targets of the Image repository were loaded and are not
\* expired.
OfflineUsesOnlyStorage ==
  [][(pc = "wait" /\ cmd'.variant = "CheckUpdates") =>
       LET Good(r) ==
             /\ StoredVersions(r) # {}
             /\ ~loadLatestRoot(r).expired
             /\ repo'[r].root = loadLatestRoot(r)
             /\ \A i \in 1..Len(RoleOrder(r)) :
                  /\ nonroot[r][RoleOrder(r)[i]].present
                  /\ ~nonroot[r][RoleOrder(r)[i]].expired
                  /\ repo'[r][RoleOrder(r)[i]] = nonroot[r][RoleOrder(r)[i]]
           new == getNewTargets(TargetsOf("director", repo'["director"]),
                                installed_images')
       IN /\ pc' = "wait" /\ walk' = walk /\ servers' = servers
          /\ roots' = roots /\ nonroot' = nonroot
          /\ highest_stored' = highest_stored
          /\ events' \in {<<>>, <<"UptaneTimestampUpdated">>,
                          <<"UpdateAvailable">>}
          /\ events' = <<"UptaneTimestampUpdated">>
               => Good("director") /\ new.ok /\ new.targets = <<>>
          /\ events' = <<"UpdateAvailable">>
               => /\ Good("director") /\ Good("images")
                  /\ new.ok /\ new.targets # <<>>]_vars

\* C32: CheckUpdates found an update in the stored metadata of both
\* repositories.
OfflineUpdateAvailable ==
  /\ cmd.variant = "CheckUpdates"
  /\ events = <<"UpdateAvailable">>
  /\ loaded_roles = {<<"director", "targets">>, <<"images", "timestamp">>,
                     <<"images", "snapshot">>, <<"images", "targets">>}
  /\ nonroot["images"]["targets"].present

\* C33: a FetchMeta that follows a FetchMeta, against servers that did
\* not change and with the same answer to the manifest and the same
\* installed images, ends with the same event and the same exception and
\* leaves the stored Roots and roles as the first one left them.
RetryIsIdempotent ==
  (/\ pc = "wait" /\ cmd.variant = "FetchMeta"
   /\ retry.prior.done
   /\ retry.put = retry.prior.put
   /\ installed_images = retry.prior.installed)
    => /\ events = retry.prior.events
       /\ last_exception = retry.prior.exception
       /\ roots = retry.prior.roots
       /\ nonroot = retry.prior.nonroot

\* C33: the second FetchMeta against servers that have rotated their Root
\* succeeded, the first one having stored Root 2 and the roles.
RetriedAfterRotation ==
  /\ pc = "wait" /\ cmd.variant = "FetchMeta"
  /\ retry.prior.done /\ retry.put /\ retry.prior.put
  /\ installed_images = retry.prior.installed
  /\ servers = [r \in Repos |-> "rotated"]
  /\ events = <<"FetchMetaComplete">>
  /\ "S1" \in DOMAIN installed_images
  /\ repo["images"].targets.present
  /\ roots["images"][2].present
  /\ nonroot["images"]["targets"].version = 2
  /\ highest_stored["images"] = 2

\* C34 (as the code has it): a progress callback that finds a token that
\* cannot continue cancels the pull, nothing else cancels it, and a pull
\* that was cancelled returns InstallFailed and adds no commit.
CancelledAtCallback ==
  [][/\ (ostree.pulling.running /\ ostree'.pulling.running
           /\ ostree'.pulling.callbacks = ostree.pulling.callbacks + 1
           /\ ostree.pulling.token = "aborted")
          => ostree'.pulling.cancelled
     /\ (ostree'.pulling.cancelled /\ ~ostree.pulling.cancelled)
          => /\ ostree.pulling.token = "aborted"
             /\ ostree'.pulling.callbacks = ostree.pulling.callbacks + 1
     /\ (ostree.pulling.running /\ ~ostree'.pulling.running
           /\ ostree.pulling.cancelled)
          => /\ ~ostree'.last.success
             /\ ostree'.last.code = "InstallFailed"
             /\ ostree'.commits = ostree.commits]_vars

\* C34 (as stated): a pull whose token cannot continue does not return a
\* successful result.
NoSuccessOnceAborted ==
  [][(ostree.pulling.running /\ ~ostree'.pulling.running
        /\ ostree.pulling.token = "aborted")
       => ~ostree'.last.success]_vars

\* C34: a pull was cancelled at its second progress callback and failed.
PullWasCancelled ==
  /\ ~ostree.pulling.running
  /\ ostree.pulling.token = "aborted"
  /\ ostree.pulling.cancelled
  /\ ostree.pulling.callbacks = 2
  /\ ostree.last.op = "pull" /\ ostree.last.code = "InstallFailed"
  /\ ostree.pulling.target.sha256Hash \notin ostree.commits

\* C35 (as the code has it): an OPC-UA Secondary is sent the sysroot path
\* and the hash of the target whatever the target is; any other Secondary
\* is sent the credentials archive for an OSTree target, right after
\* secondaryTreehubCredentials gave one, and the target file for any other
\* target; when secondaryTreehubCredentials gives none, nothing is sent
\* to that Secondary for that target.
FirmwareByTargetType ==
  \A i \in 1..Len(install_log) :
    LET d == install_log[i]
    IN /\ d.op = "sendFirmware" =>
            /\ d.ecu \in SecondarySerials
            /\ d.what[1] =
                 IF SecondaryType(d.ecu) = "kOpcuaUptane" THEN "sysroot"
                 ELSE IF IsOstree(d.target) THEN "credentials" ELSE "image"
            /\ d.what[1] = "credentials" =>
                 /\ i > 1
                 /\ install_log[i - 1].op = "secondaryTreehubCredentials"
                 /\ install_log[i - 1].ecu = d.ecu
                 /\ install_log[i - 1].what[1]
       /\ (d.op = "secondaryTreehubCredentials" /\ ~d.what[1]) =>
            /\ \A j \in 1..Len(install_log) :
                 ~(/\ install_log[j].op = "sendFirmware"
                   /\ install_log[j].ecu = d.ecu
                   /\ install_log[j].target = d.target)

\* C35 (as stated): a Secondary is sent the credentials archive when its
\* target is an OSTree target and the target file when it is not.
CredentialsOrImage ==
  \A i \in 1..Len(install_log) :
    install_log[i].op = "sendFirmware" =>
      install_log[i].what[1] =
        IF IsOstree(install_log[i].target) THEN "credentials" ELSE "image"

\* C35: for one OSTree target the first Secondary got the credentials
\* archive and the OPC-UA Secondary the sysroot path and the hash.
CredentialsAndSysrootSent ==
  \E i, j \in 1..Len(install_log) :
    /\ install_log[i].op = "sendFirmware" /\ install_log[i].ecu = "S1"
    /\ install_log[i].what[1] = "credentials"
    /\ install_log[j].op = "sendFirmware" /\ install_log[j].ecu = "S2"
    /\ install_log[j].what[1] = "sysroot"
    /\ install_log[j].target = install_log[i].target

(***************************************************************************)
(* C36: for an identifier of even length, readUptanePublicKey returns      *)
(* false while no public key of that identifier is on the token, and       *)
(* returns true once generateUptaneKeyPair of the identifier has           *)
(* succeeded (a successful generation leaves the public key on the token,  *)
(* no call takes a key off it, and a read that reaches the token finds     *)
(* it); for an identifier of odd length readUptanePublicKey and            *)
(* readTlsCert return false and do not ask the token.                      *)
(***************************************************************************)
KeyReadableOnceGenerated ==
  [][LET call == p11'.last
         even == Len(call.id) % 2 = 0
         reads == {"readUptanePublicKey", "readTlsCert"}
     IN /\ (call.op = "readUptanePublicKey" /\ even /\ call.result)
             => unhex(call.id) \in p11.public
        /\ (call.op = "readUptanePublicKey" /\ even /\ call.reachable
              /\ unhex(call.id) \in p11.public)
             => call.result
        /\ (call.op = "generateUptaneKeyPair" /\ call.result)
             => even /\ unhex(call.id) \in p11'.public
        /\ p11.public \subseteq p11'.public
        /\ (call.op \in reads /\ ~even)
             => ~call.result /\ ~call.queried]_vars

\* A key generated as aA is read as Aa, on a token where the generation
\* of the key a0 stored the private key only.
GeneratedKeyRead ==
  /\ p11.last.op = "readUptanePublicKey"
  /\ p11.last.id = <<"A", "a">>
  /\ p11.last.result
  /\ p11.public = {<<170>>}
  /\ <<160>> \in p11.private

(***************************************************************************)
(* C37: after verifySecondaries the stored misconfigured_ecus are exactly  *)
(* the stored serials that are neither the Primary's nor a configured      *)
(* Secondary's, as Old, and the configured Secondaries that are not        *)
(* stored, as NotRegistered; and nothing behind the end of the stored      *)
(* list was read.                                                          *)
(***************************************************************************)
ExpectedMisconfigured ==
  LET stored == {ecu_store.serials[i] : i \in DOMAIN ecu_store.serials}
  IN {MisconfiguredEcu(s, "Old") :
        s \in stored \ ({PrimaryEcuSerial} \cup secondaries)}
     \cup {MisconfiguredEcu(s, "NotRegistered") : s \in secondaries \ stored}

RecordedMisconfigured ==
  {ecu_store.misconfigured[i] : i \in DOMAIN ecu_store.misconfigured}

MisconfiguredExactly ==
  (ecu_store.verified /\ ecu_store.serials # <<>>)
    => /\ ~ecu_store.past_end
       /\ ecu_store.written
       /\ RecordedMisconfigured = ExpectedMisconfigured

\* With the Primary's serial in the stored list the record is the expected
\* one and the list is read within its bounds.
MisconfiguredWithStoredPrimary ==
  (ecu_store.verified /\ FindIf(ecu_store.serials, PrimaryEcuSerial)
                           <= Len(ecu_store.serials))
    => /\ ~ecu_store.past_end
       /\ ecu_store.written
       /\ RecordedMisconfigured = ExpectedMisconfigured

\* An unknown stored serial and a missing Secondary are both recorded.
OldAndNotRegistered ==
  /\ ecu_store.verified
  /\ ecu_store.serials = <<"P", "X", "S1">>
  /\ ecu_store.misconfigured = <<MisconfiguredEcu("S2", "NotRegistered"),
                                 MisconfiguredEcu("X", "Old")>>

(***************************************************************************)
(* C38: an UptaneInstall command calls install at most once and stores at  *)
(* most one installation result, both for the first target addressed to   *)
(* the Primary; a later target of the Primary in the same command gets     *)
(* no bootloader notification, no install and no result.                   *)
(***************************************************************************)
PrimarySteps(op) ==
  {i \in 1..Len(install_log) :
     install_log[i].op = op /\ install_log[i].ecu = PrimarySerial}

InstallAtMostOnce ==
  cmd.variant = "UptaneInstall" =>
    LET primary_updates == findForEcu(cmd.updates, PrimarySerial)
        steps == PrimarySteps("updateNotify") \cup PrimarySteps("install")
                   \cup PrimarySteps("result")
    IN /\ Cardinality(PrimarySteps("install")) <= 1
       /\ Cardinality(PrimarySteps("result")) <= 1
       /\ \A i \in steps :
            /\ primary_updates # <<>>
            /\ install_log[i].target = Head(primary_updates)
       /\ PrimarySteps("result") # {} =>
            installation_result.id = Head(primary_updates).filename

\* The first of two targets of the Primary was installed, the second, the
\* image that was installed before, was left alone.
FirstOfTwoInstalled ==
  /\ cmd.variant = "UptaneInstall"
  /\ cmd.updates = <<TNew, TCur>>
  /\ \E i \in PrimarySteps("install") : install_log[i].what = <<"Ok">>
  /\ pm_current = TNew

(***************************************************************************)
(* C39: when the first target of the Primary in an UptaneInstall command   *)
(* is the image installed on the Primary, the bootloader is not notified,  *)
(* install is not called, an AlreadyProcessed result is stored and the     *)
(* log of installed versions stays as it is; otherwise the bootloader is   *)
(* notified, and before any call of install.                               *)
(***************************************************************************)
InstalledIsNotInstalledAgain ==
  [][(pc = "wait" /\ pc' = "wait" /\ cmd'.variant = "UptaneInstall")
       => LET primary_updates == findForEcu(cmd'.updates, PrimarySerial)
              first == Head(primary_updates)
              at(op) == {i \in 1..Len(install_log') :
                           /\ install_log'[i].op = op
                           /\ install_log'[i].ecu = PrimarySerial}
          IN primary_updates # <<>> =>
               IF SameImage(first, pm_current)
               THEN /\ at("updateNotify") = {}
                    /\ at("install") = {}
                    /\ \E i \in at("result") :
                         install_log'[i].what = <<"AlreadyProcessed">>
                    /\ installation_result' =
                         [id |-> first.filename, code |-> "AlreadyProcessed"]
                    /\ installed_versions' = installed_versions
                    /\ pm_current' = pm_current
               ELSE /\ at("updateNotify") # {}
                    /\ \A i \in at("install") :
                         \E j \in at("updateNotify") : j < i]_vars

\* The image that is installed comes first in the command, before a new
\* one: nothing is installed, and the result says AlreadyProcessed.
InstalledSentAgain ==
  /\ cmd.variant = "UptaneInstall"
  /\ cmd.updates = <<TCur, TNew>>
  /\ pm_current = TCur
  /\ installation_result = [id |-> TCur.filename, code |-> "AlreadyProcessed"]
  /\ PrimarySteps("install") = {}
  /\ PrimarySteps("result") # {}

(***************************************************************************)
(* C40: Run calls sendDeviceData once, before the first fetchMeta, and     *)
(* after it only fetchMeta; at most one FetchMetadata is begun after       *)
(* Shutdown() was called, and a Run that is in its loop when shutdown_ is  *)
(* set returns.                                                            *)
(***************************************************************************)
InRun == api.pc \in {"polling", "in_loop"}

RunStopsAfterShutdown ==
  /\ [](InRun =>
          /\ api.calls # <<>>
          /\ api.calls[1] = "sendDeviceData"
          /\ \A i \in 2..Len(api.calls) : api.calls[i] = "fetchMeta"
          /\ api.late <= 1)
  /\ [][api.pc = "returned" => api'.calls = api.calls]_vars
  /\ ((InRun /\ api.shutdown_) ~> api.pc = "returned")

\* Shutdown came between the test of the loop and FetchMetadata: one more
\* fetch was made, after an earlier one, and Run returned.
ReturnedAfterLateFetch ==
  /\ api.pc = "returned"
  /\ api.late = 1
  /\ api.calls = <<"sendDeviceData", "fetchMeta", "fetchMeta">>

====
